---- MODULE Spec2Model ----
(***************************************************************************)
(* Tango solver: the rule engine (src/unnamed/part_001, the step-by-step   *)
(* solver), its fixpoint driver, and the two legality checkers.            *)
(*                                                                         *)
(* A grid is a function row -> (col -> cell), rows and columns 0-indexed   *)
(* as in the JavaScript source; a cell is "sun", "moon" or Null (the       *)
(* source's null).  A constraint is a tuple <<r1, c1, r2, c2>>; a          *)
(* constraint set is a record of two ordered lists, equals and notEquals.  *)
(* A rule of the source mutates the grid it is given and returns a         *)
(* SolvingStep or null; here a rule returns a record whose field grid is   *)
(* the grid as the rule leaves it, or NotFound.  The explanation text of a *)
(* step is not modelled.                                                   *)
(***************************************************************************)
EXTENDS Integers, Sequences, FiniteSets, TLC

Null == "null"
Sun == "sun"
Moon == "moon"
CellValues == {Null, Sun, Moon}

\* The board's size (const GRID_SIZE = 6).
GRID_SIZE == 6

Idx(n) == 0..(n - 1)

\* val === 'sun' ? 'moon' : 'sun'
Opposite(v) == IF v = Sun THEN Moon ELSE Sun

\* Math.floor(size / 2)
maxAllowed(n) == n \div 2

Min(S) == CHOOSE x \in S : \A y \in S : x <= y

\* The least index of S (the first iteration of an ascending loop that hits),
\* or -1 when there is none.
FirstIndex(S) == IF S = {} THEN -1 ELSE Min(S)

\* The indices of S in ascending order (Array.filter keeps order).
Ascending(S) ==
  [j \in 1..Cardinality(S) |->
     CHOOSE x \in S : Cardinality({y \in S : y < x}) = j - 1]

\* grid[row].filter(v => v === sym).length
RowCount(g, n, row, sym) == Cardinality({c \in Idx(n) : g[row][c] = sym})

\* grid.map(r => r[col]).filter(v => v === sym).length
ColCount(g, n, col, sym) == Cardinality({r \in Idx(n) : g[r][col] = sym})

\* A faulty write: the cell and every empty cell after it in its row are set
\* (a fill loop that does not stop at its first cell).
SetCellsToRowEnd(g, r, c, v) ==
  [g EXCEPT ![r] = [x \in DOMAIN g[r] |->
                      IF x = c \/ (x > c /\ g[r][x] = Null) THEN v ELSE g[r][x]]]

\* grid[r][c] = v on the grid a rule was handed.
SetCell(g, r, c, v) == [g EXCEPT ![r][c] = v]

\* Array(GRID_SIZE).fill(null).map(() => Array(GRID_SIZE).fill(null))
EmptyGrid(n) == [r \in Idx(n) |-> [c \in Idx(n) |-> Null]]

\* grid.map(row => row.slice()): a new array of new rows with the same cells.
CopyGrid(g) == [r \in DOMAIN g |-> [c \in DOMAIN g[r] |-> g[r][c]]]

EmptyCount(g, n) == Cardinality({rc \in Idx(n) \X Idx(n) : g[rc[1]][rc[2]] = Null})

(***************************************************************************)
(* Legality checkers                                                       *)
(***************************************************************************)

\* Three equal filled cells at (row, col..col+2).
RowTriple(g, row, col) ==
  g[row][col] # Null /\ g[row][col] = g[row][col + 1] /\ g[row][col + 1] = g[row][col + 2]

\* Three equal filled cells at (row..row+2, col).
ColTriple(g, row, col) ==
  g[row][col] # Null /\ g[row][col] = g[row + 1][col] /\ g[row + 1][col] = g[row + 2][col]

EqualsBroken(g, k) ==
  g[k[1]][k[2]] # Null /\ g[k[3]][k[4]] # Null /\ g[k[1]][k[2]] # g[k[3]][k[4]]

NotEqualsBroken(g, k) ==
  g[k[1]][k[2]] # Null /\ g[k[3]][k[4]] # Null /\ g[k[1]][k[2]] = g[k[3]][k[4]]

\* The partial/complete check: FALSE at the first violation.
isValidPartialSolution(g, cons, n) ==
  /\ \A row \in Idx(n) :
        /\ ~(RowCount(g, n, row, Sun) > maxAllowed(n) \/ RowCount(g, n, row, Moon) > maxAllowed(n))
        /\ \A col \in 0..(n - 3) : ~RowTriple(g, row, col)
  /\ \A col \in Idx(n) :
        /\ ~(ColCount(g, n, col, Sun) > maxAllowed(n) \/ ColCount(g, n, col, Moon) > maxAllowed(n))
        /\ \A row \in 0..(n - 3) : ~ColTriple(g, row, col)
  /\ \A i \in 1..Len(cons.equals) : ~EqualsBroken(g, cons.equals[i])
  /\ \A i \in 1..Len(cons.notEquals) : ~NotEqualsBroken(g, cons.notEquals[i])

\* The solver's fill check.
isComplete(g, n) == \A row \in Idx(n) : \A col \in Idx(n) : g[row][col] # Null

\* The board's win check: every cell filled, as many suns as moons in every
\* row and column, no three equal cells in a line.  It is not given the
\* constraints.
checkWin(g, n) ==
  /\ \A row \in Idx(n) : \A col \in Idx(n) : g[row][col] # Null
  /\ \A row \in Idx(n) : RowCount(g, n, row, Sun) = RowCount(g, n, row, Moon)
  /\ \A col \in Idx(n) : ColCount(g, n, col, Sun) = ColCount(g, n, col, Moon)
  /\ \A row \in Idx(n) : \A col \in 0..(n - 3) : ~RowTriple(g, row, col)
  /\ \A col \in Idx(n) : \A row \in 0..(n - 3) : ~ColTriple(g, row, col)

RECURSIVE ConcatAll(_)
\* The lists of a list of lists, joined in order.
ConcatAll(ss) == IF ss = <<>> THEN <<>> ELSE Head(ss) \o ConcatAll(Tail(ss))

\* grid.some(row => row.some(cell => cell !== null))
hasAnyFilled(g, n) == \E row \in Idx(n) : \E col \in Idx(n) : g[row][col] # Null

\* The errors one row adds: too many suns, too many moons, then one error per
\* run of three, left to right.  An error is a tuple of its kind and the
\* numbers its message prints.
RowErrors(g, n, row) ==
  LET suns == RowCount(g, n, row, Sun)
      moons == RowCount(g, n, row, Moon)
      Run(col) == RowTriple(g, row, col)
      runs == Ascending({idx \in 0..(n - 2 - 1) : Run(idx)})
  IN (IF suns > maxAllowed(n) THEN <<<<"row suns", row + 1, suns>>>> ELSE <<>>)
     \o (IF moons > maxAllowed(n) THEN <<<<"row moons", row + 1, moons>>>> ELSE <<>>)
     \o [j \in 1..Len(runs) |-> <<"row run", row + 1, g[row][runs[j]], runs[j] + 1>>]

\* The errors one column adds.
ColErrors(g, n, col) ==
  LET suns == ColCount(g, n, col, Sun)
      moons == ColCount(g, n, col, Moon)
      Run(row) == ColTriple(g, row, col)
      runs == Ascending({idx \in 0..(n - 2 - 1) : Run(idx)})
  IN (IF suns > maxAllowed(n) THEN <<<<"column suns", col + 1, suns>>>> ELSE <<>>)
     \o (IF moons > maxAllowed(n) THEN <<<<"column moons", col + 1, moons>>>> ELSE <<>>)
     \o [j \in 1..Len(runs) |-> <<"column run", col + 1, g[runs[j]][col], runs[j] + 1>>]

\* The error of a broken constraint: its kind and the two cells as the message
\* prints them, (${r1 + 1},${c1 + 1}) and (${r2 + 1},${c2 + 1}).
ConstraintError(kind, k) == <<kind, k[1] + 1, k[2] + 1, k[3] + 1, k[4] + 1>>

\* A faulty start validator: it stops at the first violation it meets.
validateStartingPositionFirstOnly(g, cons, n) ==
  LET EqBad(i) == EqualsBroken(g, cons.equals[i + 1])
      NeBad(i) == NotEqualsBroken(g, cons.notEquals[i + 1])
      eqs == Ascending({idx \in 0..(Len(cons.equals) - 1) : EqBad(idx)})
      nes == Ascending({idx \in 0..(Len(cons.notEquals) - 1) : NeBad(idx)})
      errors ==
        (IF ~hasAnyFilled(g, n) THEN <<<<"empty">>>> ELSE <<>>)
        \o ConcatAll([row \in 1..n |-> RowErrors(g, n, row - 1)])
        \o ConcatAll([col \in 1..n |-> ColErrors(g, n, col - 1)])
        \o [j \in 1..Len(eqs) |-> ConstraintError("must be equal", cons.equals[eqs[j] + 1])]
        \o [j \in 1..Len(nes) |-> ConstraintError("must be different", cons.notEquals[nes[j] + 1])]
  IN [isValid |-> Len(errors) = 0,
      errors |-> IF Len(errors) = 0 THEN <<>> ELSE <<errors[1]>>]

\* A faulty start validator: the empty grid is not reported.
validateStartingPositionAllowEmpty(g, cons, n) ==
  LET EqBad(i) == EqualsBroken(g, cons.equals[i + 1])
      NeBad(i) == NotEqualsBroken(g, cons.notEquals[i + 1])
      eqs == Ascending({idx \in 0..(Len(cons.equals) - 1) : EqBad(idx)})
      nes == Ascending({idx \in 0..(Len(cons.notEquals) - 1) : NeBad(idx)})
      errors ==
        ConcatAll([row \in 1..n |-> RowErrors(g, n, row - 1)])
        \o ConcatAll([col \in 1..n |-> ColErrors(g, n, col - 1)])
        \o [j \in 1..Len(eqs) |-> ConstraintError("must be equal", cons.equals[eqs[j] + 1])]
        \o [j \in 1..Len(nes) |-> ConstraintError("must be different", cons.notEquals[nes[j] + 1])]
  IN [isValid |-> Len(errors) = 0, errors |-> errors]

\* The start validator: every violation is collected; valid means none was.
validateStartingPosition(g, cons, n) ==
  LET EqBad(i) == EqualsBroken(g, cons.equals[i + 1])
      NeBad(i) == NotEqualsBroken(g, cons.notEquals[i + 1])
      eqs == Ascending({idx \in 0..(Len(cons.equals) - 1) : EqBad(idx)})
      nes == Ascending({idx \in 0..(Len(cons.notEquals) - 1) : NeBad(idx)})
      errors ==
        (IF ~hasAnyFilled(g, n) THEN <<<<"empty">>>> ELSE <<>>)
        \o ConcatAll([row \in 1..n |-> RowErrors(g, n, row - 1)])
        \o ConcatAll([col \in 1..n |-> ColErrors(g, n, col - 1)])
        \o [j \in 1..Len(eqs) |-> ConstraintError("must be equal", cons.equals[eqs[j] + 1])]
        \o [j \in 1..Len(nes) |-> ConstraintError("must be different", cons.notEquals[nes[j] + 1])]
  IN [isValid |-> Len(errors) = 0, errors |-> errors]

(***************************************************************************)
(* The rule engine                                                         *)
(***************************************************************************)

NotFound == [found |-> FALSE]

\* A faulty step record: the value reported is not the value written.
SolvingStepOtherValue(ruleName, affectedCells, resultCell, resultValue, g) ==
  [found |-> TRUE, ruleName |-> ruleName, affectedCells |-> affectedCells,
   resultCell |-> resultCell, resultValue |-> Opposite(resultValue), grid |-> g]

\* new SolvingStep(ruleName, explanation, affectedCells, resultCell, resultValue);
\* g is the grid after the rule's write.
SolvingStep(ruleName, affectedCells, resultCell, resultValue, g) ==
  [found |-> TRUE, ruleName |-> ruleName, affectedCells |-> affectedCells,
   resultCell |-> resultCell, resultValue |-> resultValue, grid |-> g]

\* A faulty rule 1: only the rows are scanned for a pair.
applyNoThreeRuleRowsOnly(g, cons, n) ==
  LET RowPair(row, col) == col < n - 1 /\ g[row][col] # Null /\ g[row][col] = g[row][col + 1]
      RowLeft(row, col) == col > 0 /\ g[row][col - 1] = Null
      RowRight(row, col) == col + 2 < n /\ g[row][col + 2] = Null
      RowHit(k) == LET row == k \div n
                       col == k % n
                   IN RowPair(row, col) /\ (RowLeft(row, col) \/ RowRight(row, col))
      kr == FirstIndex({idx \in 0..(n * n - 1) : RowHit(idx)})
  IN IF kr >= 0
     THEN LET row == kr \div n
              col == kr % n
              opposite == Opposite(g[row][col])
              target == IF RowLeft(row, col) THEN col - 1 ELSE col + 2
          IN SolvingStep("No-Three Rule", <<<<row, col>>, <<row, col + 1>>>>,
                         <<row, target>>, opposite, SetCell(g, row, target, opposite))
     ELSE NotFound

\* Rule 1: two equal adjacent cells force the open neighbour to the opposite.
applyNoThreeRule(g, cons, n) ==
  LET RowPair(row, col) == col < n - 1 /\ g[row][col] # Null /\ g[row][col] = g[row][col + 1]
      RowLeft(row, col) == col > 0 /\ g[row][col - 1] = Null
      RowRight(row, col) == col + 2 < n /\ g[row][col + 2] = Null
      RowHit(k) == LET row == k \div n
                       col == k % n
                   IN RowPair(row, col) /\ (RowLeft(row, col) \/ RowRight(row, col))
      ColPair(row, col) == row < n - 1 /\ g[row][col] # Null /\ g[row][col] = g[row + 1][col]
      ColTop(row, col) == row > 0 /\ g[row - 1][col] = Null
      ColBottom(row, col) == row + 2 < n /\ g[row + 2][col] = Null
      ColHit(k) == LET col == k \div n
                       row == k % n
                   IN ColPair(row, col) /\ (ColTop(row, col) \/ ColBottom(row, col))
      kr == FirstIndex({idx \in 0..(n * n - 1) : RowHit(idx)})
      kc == FirstIndex({idx \in 0..(n * n - 1) : ColHit(idx)})
  IN IF kr >= 0
     THEN LET row == kr \div n
              col == kr % n
              opposite == Opposite(g[row][col])
              target == IF RowLeft(row, col) THEN col - 1 ELSE col + 2
          IN SolvingStep("No-Three Rule", <<<<row, col>>, <<row, col + 1>>>>,
                         <<row, target>>, opposite, SetCell(g, row, target, opposite))
     ELSE IF kc >= 0
     THEN LET col == kc \div n
              row == kc % n
              opposite == Opposite(g[row][col])
              target == IF ColTop(row, col) THEN row - 1 ELSE row + 2
          IN SolvingStep("No-Three Rule", <<<<row, col>>, <<row + 1, col>>>>,
                         <<target, col>>, opposite, SetCell(g, target, col, opposite))
     ELSE NotFound

\* grid[row].map((val, idx) => val !== null ? [row, idx] : null).filter(x => x !== null)
FilledInRow(g, n, row) ==
  LET P(c) == g[row][c] # Null
      cs == Ascending({idx \in 0..(n - 1) : P(idx)})
  IN [j \in 1..Len(cs) |-> <<row, cs[j]>>]

\* grid.map((r, idx) => r[col] !== null ? [idx, col] : null).filter(x => x !== null)
FilledInCol(g, n, col) ==
  LET P(r) == g[r][col] # Null
      rs == Ascending({idx \in 0..(n - 1) : P(idx)})
  IN [j \in 1..Len(rs) |-> <<rs[j], col>>]

\* A faulty rule 2: the empty cell is filled with the symbol the line is
\* already full of.
applyParityRuleSameSymbol(g, cons, n) ==
  LET RowEmpty(row) == \E c \in Idx(n) : g[row][c] = Null
      RowHit(row) == /\ RowEmpty(row)
                     /\ \/ RowCount(g, n, row, Sun) = maxAllowed(n)
                        \/ RowCount(g, n, row, Moon) = maxAllowed(n)
      ColEmpty(col) == \E r \in Idx(n) : g[r][col] = Null
      ColHit(col) == /\ ColEmpty(col)
                     /\ \/ ColCount(g, n, col, Sun) = maxAllowed(n)
                        \/ ColCount(g, n, col, Moon) = maxAllowed(n)
      kr == FirstIndex({idx \in 0..(n - 1) : RowHit(idx)})
      kc == FirstIndex({idx \in 0..(n - 1) : ColHit(idx)})
  IN IF kr >= 0
     THEN LET value == IF RowCount(g, n, kr, Sun) = maxAllowed(n) THEN Sun ELSE Moon
              IsEmpty(c) == g[kr][c] = Null
              col == FirstIndex({idx \in 0..(n - 1) : IsEmpty(idx)})
              after == SetCell(g, kr, col, value)
          IN SolvingStep("Parity Rule", FilledInRow(after, n, kr), <<kr, col>>, value, after)
     ELSE IF kc >= 0
     THEN LET value == IF ColCount(g, n, kc, Sun) = maxAllowed(n) THEN Sun ELSE Moon
              IsEmpty(r) == g[r][kc] = Null
              row == FirstIndex({idx \in 0..(n - 1) : IsEmpty(idx)})
              after == SetCell(g, row, kc, value)
          IN SolvingStep("Parity Rule", FilledInCol(after, n, kc), <<row, kc>>, value, after)
     ELSE NotFound

\* Rule 2: a line holding size/2 of one symbol has its empty cells filled with
\* the other, the first empty cell per call.  affectedCells is read from the
\* grid after the write.
applyParityRule(g, cons, n) ==
  LET RowEmpty(row) == \E c \in Idx(n) : g[row][c] = Null
      RowHit(row) == /\ RowEmpty(row)
                     /\ \/ RowCount(g, n, row, Sun) = maxAllowed(n)
                        \/ RowCount(g, n, row, Moon) = maxAllowed(n)
      ColEmpty(col) == \E r \in Idx(n) : g[r][col] = Null
      ColHit(col) == /\ ColEmpty(col)
                     /\ \/ ColCount(g, n, col, Sun) = maxAllowed(n)
                        \/ ColCount(g, n, col, Moon) = maxAllowed(n)
      kr == FirstIndex({idx \in 0..(n - 1) : RowHit(idx)})
      kc == FirstIndex({idx \in 0..(n - 1) : ColHit(idx)})
  IN IF kr >= 0
     THEN LET value == IF RowCount(g, n, kr, Sun) = maxAllowed(n) THEN Moon ELSE Sun
              IsEmpty(c) == g[kr][c] = Null
              col == FirstIndex({idx \in 0..(n - 1) : IsEmpty(idx)})
              after == SetCell(g, kr, col, value)
          IN SolvingStep("Parity Rule", FilledInRow(after, n, kr), <<kr, col>>, value, after)
     ELSE IF kc >= 0
     THEN LET value == IF ColCount(g, n, kc, Sun) = maxAllowed(n) THEN Moon ELSE Sun
              IsEmpty(r) == g[r][kc] = Null
              row == FirstIndex({idx \in 0..(n - 1) : IsEmpty(idx)})
              after == SetCell(g, row, kc, value)
          IN SolvingStep("Parity Rule", FilledInCol(after, n, kc), <<row, kc>>, value, after)
     ELSE NotFound

\* A constraint with exactly one filled endpoint.
HalfFilled(g, k) ==
  \/ g[k[1]][k[2]] # Null /\ g[k[3]][k[4]] = Null
  \/ g[k[3]][k[4]] # Null /\ g[k[1]][k[2]] = Null

\* A faulty rule 3: the notEquals list is scanned before the equals list.
applyConstraintPropagationNotEqualsFirst(g, cons, n) ==
  LET EqHit(i) == HalfFilled(g, cons.equals[i + 1])
      NeHit(i) == HalfFilled(g, cons.notEquals[i + 1])
      ke == FirstIndex({idx \in 0..(Len(cons.equals) - 1) : EqHit(idx)})
      kn == FirstIndex({idx \in 0..(Len(cons.notEquals) - 1) : NeHit(idx)})
      Fill(k, name, same) ==
        LET from == IF g[k[1]][k[2]] # Null THEN <<k[1], k[2]>> ELSE <<k[3], k[4]>>
            to == IF g[k[1]][k[2]] # Null THEN <<k[3], k[4]>> ELSE <<k[1], k[2]>>
            known == g[from[1]][from[2]]
            value == IF same THEN known ELSE Opposite(known)
        IN SolvingStep(name, <<from>>, to, value, SetCell(g, to[1], to[2], value))
  IN IF kn >= 0
     THEN Fill(cons.notEquals[kn + 1], "Constraint Propagation (Not Equals)", FALSE)
     ELSE IF ke >= 0
     THEN Fill(cons.equals[ke + 1], "Constraint Propagation (Equals)", TRUE)
     ELSE NotFound

\* Rule 3: a constraint with one known endpoint fixes the other; the equals
\* list is scanned before the notEquals list.
applyConstraintPropagation(g, cons, n) ==
  LET EqHit(i) == HalfFilled(g, cons.equals[i + 1])
      NeHit(i) == HalfFilled(g, cons.notEquals[i + 1])
      ke == FirstIndex({idx \in 0..(Len(cons.equals) - 1) : EqHit(idx)})
      kn == FirstIndex({idx \in 0..(Len(cons.notEquals) - 1) : NeHit(idx)})
      Fill(k, name, same) ==
        LET from == IF g[k[1]][k[2]] # Null THEN <<k[1], k[2]>> ELSE <<k[3], k[4]>>
            to == IF g[k[1]][k[2]] # Null THEN <<k[3], k[4]>> ELSE <<k[1], k[2]>>
            known == g[from[1]][from[2]]
            value == IF same THEN known ELSE Opposite(known)
        IN SolvingStep(name, <<from>>, to, value, SetCell(g, to[1], to[2], value))
  IN IF ke >= 0
     THEN Fill(cons.equals[ke + 1], "Constraint Propagation (Equals)", TRUE)
     ELSE IF kn >= 0
     THEN Fill(cons.notEquals[kn + 1], "Constraint Propagation (Not Equals)", FALSE)
     ELSE NotFound

\* Rule 4: equal filled cells at both ends of a line force the second cell,
\* else the second-to-last cell, to the opposite.
applyEdgeCases(g, cons, n) ==
  LET RowEnds(row) == g[row][0] # Null /\ g[row][n - 1] # Null /\ g[row][0] = g[row][n - 1]
      RowHit(row) == RowEnds(row) /\ (g[row][1] = Null \/ g[row][n - 2] = Null)
      ColEnds(col) == g[0][col] # Null /\ g[n - 1][col] # Null /\ g[0][col] = g[n - 1][col]
      ColHit(col) == ColEnds(col) /\ (g[1][col] = Null \/ g[n - 2][col] = Null)
      kr == FirstIndex({idx \in 0..(n - 1) : RowHit(idx)})
      kc == FirstIndex({idx \in 0..(n - 1) : ColHit(idx)})
  IN IF kr >= 0
     THEN LET opposite == Opposite(g[kr][0])
              target == IF g[kr][1] = Null THEN 1 ELSE n - 2
          IN SolvingStep("Edge Case Rule", <<<<kr, 0>>, <<kr, n - 1>>>>,
                         <<kr, target>>, opposite, SetCell(g, kr, target, opposite))
     ELSE IF kc >= 0
     THEN LET opposite == Opposite(g[0][kc])
              target == IF g[1][kc] = Null THEN 1 ELSE n - 2
          IN SolvingStep("Edge Case Rule", <<<<0, kc>>, <<n - 1, kc>>>>,
                         <<target, kc>>, opposite, SetCell(g, target, kc, opposite))
     ELSE NotFound

\* A faulty Rule 5: the gap is not required to be empty, so a filled middle
\* cell is written again.
applyGapRuleAnyMiddle(g, cons, n) ==
  LET RowHit(k) == LET row == k \div n
                       col == k % n
                   IN /\ col < n - 2
                      /\ g[row][col] # Null /\ g[row][col + 2] # Null
                      /\ g[row][col] = g[row][col + 2]
      ColHit(k) == LET col == k \div n
                       row == k % n
                   IN /\ row < n - 2
                      /\ g[row][col] # Null /\ g[row + 2][col] # Null
                      /\ g[row][col] = g[row + 2][col]
      kr == FirstIndex({idx \in 0..(n * n - 1) : RowHit(idx)})
      kc == FirstIndex({idx \in 0..(n * n - 1) : ColHit(idx)})
  IN IF kr >= 0
     THEN LET row == kr \div n
              col == kr % n
              opposite == Opposite(g[row][col])
          IN SolvingStep("Gap Rule", <<<<row, col>>, <<row, col + 2>>>>,
                         <<row, col + 1>>, opposite, SetCell(g, row, col + 1, opposite))
     ELSE IF kc >= 0
     THEN LET col == kc \div n
              row == kc % n
              opposite == Opposite(g[row][col])
          IN SolvingStep("Gap Rule", <<<<row, col>>, <<row + 2, col>>>>,
                         <<row + 1, col>>, opposite, SetCell(g, row + 1, col, opposite))
     ELSE NotFound

\* Rule 5: value _ value forces the gap to the opposite.
applyGapRule(g, cons, n) ==
  LET RowHit(k) == LET row == k \div n
                       col == k % n
                   IN /\ col < n - 2
                      /\ g[row][col] # Null /\ g[row][col + 2] # Null
                      /\ g[row][col] = g[row][col + 2] /\ g[row][col + 1] = Null
      ColHit(k) == LET col == k \div n
                       row == k % n
                   IN /\ row < n - 2
                      /\ g[row][col] # Null /\ g[row + 2][col] # Null
                      /\ g[row][col] = g[row + 2][col] /\ g[row + 1][col] = Null
      kr == FirstIndex({idx \in 0..(n * n - 1) : RowHit(idx)})
      kc == FirstIndex({idx \in 0..(n * n - 1) : ColHit(idx)})
  IN IF kr >= 0
     THEN LET row == kr \div n
              col == kr % n
              opposite == Opposite(g[row][col])
          IN SolvingStep("Gap Rule", <<<<row, col>>, <<row, col + 2>>>>,
                         <<row, col + 1>>, opposite, SetCell(g, row, col + 1, opposite))
     ELSE IF kc >= 0
     THEN LET col == kc \div n
              row == kc % n
              opposite == Opposite(g[row][col])
          IN SolvingStep("Gap Rule", <<<<row, col>>, <<row + 2, col>>>>,
                         <<row + 1, col>>, opposite, SetCell(g, row + 1, col, opposite))
     ELSE NotFound

\* Rule 6: two equal filled cells at one end of a line force the empty cell at
\* the other end to the opposite.
applyTwoEqualsAtEndRule(g, cons, n) ==
  LET RowStart(row) == /\ g[row][0] # Null /\ g[row][1] # Null
                       /\ g[row][0] = g[row][1] /\ g[row][n - 1] = Null
      RowEnd(row) == /\ g[row][n - 2] # Null /\ g[row][n - 1] # Null
                     /\ g[row][n - 2] = g[row][n - 1] /\ g[row][0] = Null
      RowHit(row) == RowStart(row) \/ RowEnd(row)
      ColStart(col) == /\ g[0][col] # Null /\ g[1][col] # Null
                       /\ g[0][col] = g[1][col] /\ g[n - 1][col] = Null
      ColEnd(col) == /\ g[n - 2][col] # Null /\ g[n - 1][col] # Null
                     /\ g[n - 2][col] = g[n - 1][col] /\ g[0][col] = Null
      ColHit(col) == ColStart(col) \/ ColEnd(col)
      kr == FirstIndex({idx \in 0..(n - 1) : RowHit(idx)})
      kc == FirstIndex({idx \in 0..(n - 1) : ColHit(idx)})
  IN IF kr >= 0
     THEN IF RowStart(kr)
          THEN SolvingStep("Two Equals at End Rule", <<<<kr, 0>>, <<kr, 1>>>>,
                           <<kr, n - 1>>, Opposite(g[kr][0]),
                           SetCell(g, kr, n - 1, Opposite(g[kr][0])))
          ELSE SolvingStep("Two Equals at End Rule", <<<<kr, n - 2>>, <<kr, n - 1>>>>,
                           <<kr, 0>>, Opposite(g[kr][n - 1]),
                           SetCell(g, kr, 0, Opposite(g[kr][n - 1])))
     ELSE IF kc >= 0
     THEN IF ColStart(kc)
          THEN SolvingStep("Two Equals at End Rule", <<<<0, kc>>, <<1, kc>>>>,
                           <<n - 1, kc>>, Opposite(g[0][kc]),
                           SetCell(g, n - 1, kc, Opposite(g[0][kc])))
          ELSE SolvingStep("Two Equals at End Rule", <<<<n - 2, kc>>, <<n - 1, kc>>>>,
                           <<0, kc>>, Opposite(g[n - 1][kc]),
                           SetCell(g, 0, kc, Opposite(g[n - 1][kc])))
     ELSE NotFound

\* A faulty rule 7: only the rows are scanned.
applySecondToLastEqualsFirstRuleRowsOnly(g, cons, n) ==
  LET RowHit(row) == /\ g[row][0] # Null /\ g[row][n - 2] # Null
                     /\ g[row][0] = g[row][n - 2] /\ g[row][n - 1] = Null
      kr == FirstIndex({idx \in 0..(n - 1) : RowHit(idx)})
  IN IF kr >= 0
     THEN SolvingStep("Second-to-Last Equals First Rule", <<<<kr, 0>>, <<kr, n - 2>>>>,
                      <<kr, n - 1>>, Opposite(g[kr][0]),
                      SetCell(g, kr, n - 1, Opposite(g[kr][0])))
     ELSE NotFound

\* Rule 7: first cell equal to the second-to-last cell forces the empty last
\* cell to the opposite.
applySecondToLastEqualsFirstRule(g, cons, n) ==
  LET RowHit(row) == /\ g[row][0] # Null /\ g[row][n - 2] # Null
                     /\ g[row][0] = g[row][n - 2] /\ g[row][n - 1] = Null
      ColHit(col) == /\ g[0][col] # Null /\ g[n - 2][col] # Null
                     /\ g[0][col] = g[n - 2][col] /\ g[n - 1][col] = Null
      kr == FirstIndex({idx \in 0..(n - 1) : RowHit(idx)})
      kc == FirstIndex({idx \in 0..(n - 1) : ColHit(idx)})
  IN IF kr >= 0
     THEN SolvingStep("Second-to-Last Equals First Rule", <<<<kr, 0>>, <<kr, n - 2>>>>,
                      <<kr, n - 1>>, Opposite(g[kr][0]),
                      SetCell(g, kr, n - 1, Opposite(g[kr][0])))
     ELSE IF kc >= 0
     THEN SolvingStep("Second-to-Last Equals First Rule", <<<<0, kc>>, <<n - 2, kc>>>>,
                      <<n - 1, kc>>, Opposite(g[0][kc]),
                      SetCell(g, n - 1, kc, Opposite(g[0][kc])))
     ELSE NotFound

\* Rule 8, first half (cross-line): line1 is one short of its cap for a symbol;
\* a notEquals constraint lying in another line line2, with one endpoint that
\* symbol and the other empty, while line2 holds its cap of the symbol, forces
\* the empty endpoint to the opposite.  Columns are scanned before rows.
ModifierCrossLine(g, cons, n) ==
  LET ne == cons.notEquals
      L == Len(ne)
      needCol(col1) == IF ColCount(g, n, col1, Sun) = maxAllowed(n) - 1 THEN Sun ELSE Moon
      needRow(row1) == IF RowCount(g, n, row1, Sun) = maxAllowed(n) - 1 THEN Sun ELSE Moon
      Forces(k, needed) ==
        \/ g[k[1]][k[2]] = needed /\ g[k[3]][k[4]] = Null
        \/ g[k[3]][k[4]] = needed /\ g[k[1]][k[2]] = Null
      ColHit(x) ==
        LET i == x % L
            col2 == (x \div L) % n
            col1 == x \div (L * n)
            k == ne[i + 1]
        IN /\ \/ ColCount(g, n, col1, Sun) = maxAllowed(n) - 1
              \/ ColCount(g, n, col1, Moon) = maxAllowed(n) - 1
           /\ col1 # col2
           /\ k[2] = col2 /\ k[4] = col2 /\ k[1] # k[3]
           /\ Forces(k, needCol(col1))
           /\ ColCount(g, n, col2, needCol(col1)) >= maxAllowed(n)
      RowHit(x) ==
        LET i == x % L
            row2 == (x \div L) % n
            row1 == x \div (L * n)
            k == ne[i + 1]
        IN /\ \/ RowCount(g, n, row1, Sun) = maxAllowed(n) - 1
              \/ RowCount(g, n, row1, Moon) = maxAllowed(n) - 1
           /\ row1 # row2
           /\ k[1] = row2 /\ k[3] = row2 /\ k[2] # k[4]
           /\ Forces(k, needRow(row1))
           /\ RowCount(g, n, row2, needRow(row1)) >= maxAllowed(n)
      Fill(k, needed) ==
        LET from == IF g[k[1]][k[2]] = needed /\ g[k[3]][k[4]] = Null
                    THEN <<k[1], k[2]>> ELSE <<k[3], k[4]>>
            to == IF g[k[1]][k[2]] = needed /\ g[k[3]][k[4]] = Null
                  THEN <<k[3], k[4]>> ELSE <<k[1], k[2]>>
        IN SolvingStep("Modifier Balance Rule", <<from>>, to, Opposite(needed),
                       SetCell(g, to[1], to[2], Opposite(needed)))
      kc == IF L = 0 THEN -1 ELSE FirstIndex({idx \in 0..(n * n * L - 1) : ColHit(idx)})
      kr == IF L = 0 THEN -1 ELSE FirstIndex({idx \in 0..(n * n * L - 1) : RowHit(idx)})
  IN IF kc >= 0 THEN Fill(ne[(kc % L) + 1], needCol(kc \div (L * n)))
     ELSE IF kr >= 0 THEN Fill(ne[(kr % L) + 1], needRow(kr \div (L * n)))
     ELSE NotFound

\* Rule 8, second half (same line): a line holding size/2 - 1 of a symbol and
\* containing a notEquals constraint has its first empty cell outside the
\* constraint filled with the opposite.  Per line the sun count is tried
\* before the moon count; columns are scanned before rows.  affectedCells is
\* read from the grid after the write.
ModifierSameLine(g, cons, n) ==
  LET ne == cons.notEquals
      L == Len(ne)
      sym(b) == IF b = 0 THEN Sun ELSE Moon
      ColFree(col, k, row) == row # k[1] /\ row # k[3] /\ g[row][col] = Null
      ColHit(x) ==
        LET i == x % L
            b == (x \div L) % 2
            col == x \div (L * 2)
            k == ne[i + 1]
        IN /\ ColCount(g, n, col, sym(b)) = maxAllowed(n) - 1
           /\ k[2] = col /\ k[4] = col /\ k[1] # k[3]
           /\ \E row \in Idx(n) : ColFree(col, k, row)
      RowFree(row, k, col) == col # k[2] /\ col # k[4] /\ g[row][col] = Null
      RowHit(x) ==
        LET i == x % L
            b == (x \div L) % 2
            row == x \div (L * 2)
            k == ne[i + 1]
        IN /\ RowCount(g, n, row, sym(b)) = maxAllowed(n) - 1
           /\ k[1] = row /\ k[3] = row /\ k[2] # k[4]
           /\ \E col \in Idx(n) : RowFree(row, k, col)
      kc == IF L = 0 THEN -1 ELSE FirstIndex({idx \in 0..(n * 2 * L - 1) : ColHit(idx)})
      kr == IF L = 0 THEN -1 ELSE FirstIndex({idx \in 0..(n * 2 * L - 1) : RowHit(idx)})
  IN IF kc >= 0
     THEN LET k == ne[(kc % L) + 1]
              col == kc \div (L * 2)
              value == Opposite(sym((kc \div L) % 2))
              Free(row) == ColFree(col, k, row)
              row == FirstIndex({idx \in 0..(n - 1) : Free(idx)})
              after == SetCell(g, row, col, value)
          IN SolvingStep("Modifier Balance Rule",
                         FilledInCol(after, n, col) \o <<<<k[1], k[2]>>, <<k[3], k[4]>>>>,
                         <<row, col>>, value, after)
     ELSE IF kr >= 0
     THEN LET k == ne[(kr % L) + 1]
              row == kr \div (L * 2)
              value == Opposite(sym((kr \div L) % 2))
              Free(col) == RowFree(row, k, col)
              col == FirstIndex({idx \in 0..(n - 1) : Free(idx)})
              after == SetCell(g, row, col, value)
          IN SolvingStep("Modifier Balance Rule",
                         FilledInRow(after, n, row) \o <<<<k[1], k[2]>>, <<k[3], k[4]>>>>,
                         <<row, col>>, value, after)
     ELSE NotFound

\* Rule 8: the cross-line loops run first, then the same-line loops.
applyModifierWithTwoEqualsRule(g, cons, n) ==
  LET cross == ModifierCrossLine(g, cons, n)
  IN IF cross.found THEN cross ELSE ModifierSameLine(g, cons, n)

MinOf(a, b) == IF a < b THEN a ELSE b
MaxOf(a, b) == IF a > b THEN a ELSE b

BothEmpty(g, k) == g[k[1]][k[2]] = Null /\ g[k[3]][k[4]] = Null

\* c1 === col && c2 === col && r1 !== r2
VerticalIn(k, col) == k[2] = col /\ k[4] = col /\ k[1] # k[3]

\* r1 === row && r2 === row && c1 !== c2
HorizontalIn(k, row) == k[1] = row /\ k[3] = row /\ k[2] # k[4]

\* Rule 9: a known cell at one end of a line and an in-line equals constraint
\* with two empty endpoints reaching the last two (first two) cells of the line
\* force the constraint's first endpoint to the opposite of the end cell.
\* Per line the near end (top/left) is tried before the far end.
applyEndWithEqualsConstraintRule(g, cons, n) ==
  LET eq == cons.equals
      L == Len(eq)
      ColHit(x) ==
        LET i == x % L
            b == (x \div L) % 2
            col == x \div (L * 2)
            k == eq[i + 1]
        IN /\ VerticalIn(k, col)
           /\ BothEmpty(g, k)
           /\ IF b = 0
              THEN g[0][col] # Null /\ ~(MaxOf(k[1], k[3]) < n - 2)
              ELSE g[n - 1][col] # Null /\ ~(MinOf(k[1], k[3]) > 1)
      RowHit(x) ==
        LET i == x % L
            b == (x \div L) % 2
            row == x \div (L * 2)
            k == eq[i + 1]
        IN /\ HorizontalIn(k, row)
           /\ BothEmpty(g, k)
           /\ IF b = 0
              THEN g[row][0] # Null /\ ~(MaxOf(k[2], k[4]) < n - 2)
              ELSE g[row][n - 1] # Null /\ ~(MinOf(k[2], k[4]) > 1)
      kc == IF L = 0 THEN -1 ELSE FirstIndex({idx \in 0..(n * 2 * L - 1) : ColHit(idx)})
      kr == IF L = 0 THEN -1 ELSE FirstIndex({idx \in 0..(n * 2 * L - 1) : RowHit(idx)})
      Fill(k, end) ==
        SolvingStep("End with Equals Constraint Rule", <<end>>, <<k[1], k[2]>>,
                    Opposite(g[end[1]][end[2]]),
                    SetCell(g, k[1], k[2], Opposite(g[end[1]][end[2]])))
  IN IF kc >= 0
     THEN Fill(eq[(kc % L) + 1],
               <<IF (kc \div L) % 2 = 0 THEN 0 ELSE n - 1, kc \div (L * 2)>>)
     ELSE IF kr >= 0
     THEN Fill(eq[(kr % L) + 1],
               <<kr \div (L * 2), IF (kr \div L) % 2 = 0 THEN 0 ELSE n - 1>>)
     ELSE NotFound

\* Rule 10: a known cell directly next to an in-line equals constraint with two
\* empty endpoints forces the constraint's first endpoint to the opposite.
applyAdjacentEqualsConstraintRule(g, cons, n) ==
  LET eq == cons.equals
      L == Len(eq)
      IsEndpoint(k, row, col) == (row = k[1] /\ col = k[2]) \/ (row = k[3] /\ col = k[4])
      ColHit(x) ==
        LET i == x % L
            row == (x \div L) % n
            col == x \div (L * n)
            k == eq[i + 1]
        IN /\ g[row][col] # Null
           /\ VerticalIn(k, col)
           /\ ~IsEndpoint(k, row, col)
           /\ (MinOf(k[1], k[3]) = row + 1 \/ MaxOf(k[1], k[3]) = row - 1)
           /\ BothEmpty(g, k)
      RowHit(x) ==
        LET i == x % L
            col == (x \div L) % n
            row == x \div (L * n)
            k == eq[i + 1]
        IN /\ g[row][col] # Null
           /\ HorizontalIn(k, row)
           /\ ~IsEndpoint(k, row, col)
           /\ (MinOf(k[2], k[4]) = col + 1 \/ MaxOf(k[2], k[4]) = col - 1)
           /\ BothEmpty(g, k)
      kc == IF L = 0 THEN -1 ELSE FirstIndex({idx \in 0..(n * n * L - 1) : ColHit(idx)})
      kr == IF L = 0 THEN -1 ELSE FirstIndex({idx \in 0..(n * n * L - 1) : RowHit(idx)})
      Fill(k, known) ==
        SolvingStep("Adjacent Equals Constraint Rule", <<known>>, <<k[1], k[2]>>,
                    Opposite(g[known[1]][known[2]]),
                    SetCell(g, k[1], k[2], Opposite(g[known[1]][known[2]])))
  IN IF kc >= 0
     THEN Fill(eq[(kc % L) + 1], <<(kc \div L) % n, kc \div (L * n)>>)
     ELSE IF kr >= 0
     THEN Fill(eq[(kr % L) + 1], <<kr \div (L * n), (kr \div L) % n>>)
     ELSE NotFound

\* The rule a given priority number names.
Rule(j, g, cons, n) ==
  CASE j = 1 -> applyNoThreeRule(g, cons, n)
    [] j = 2 -> applyParityRule(g, cons, n)
    [] j = 3 -> applyConstraintPropagation(g, cons, n)
    [] j = 4 -> applyEdgeCases(g, cons, n)
    [] j = 5 -> applyGapRule(g, cons, n)
    [] j = 6 -> applyTwoEqualsAtEndRule(g, cons, n)
    [] j = 7 -> applySecondToLastEqualsFirstRule(g, cons, n)
    [] j = 8 -> applyModifierWithTwoEqualsRule(g, cons, n)
    [] j = 9 -> applyEndWithEqualsConstraintRule(g, cons, n)
    [] j = 10 -> applyAdjacentEqualsConstraintRule(g, cons, n)

\* A faulty dispatcher: the rules are tried from the last to the first.
applyAllRulesLastFirst(g, cons, n) ==
  LET fired == {j \in 1..10 : Rule(j, g, cons, n).found}
  IN IF fired = {} THEN NotFound
     ELSE Rule(CHOOSE j \in fired : \A k \in fired : k <= j, g, cons, n)

\* A faulty dispatcher: when no rule fires, the first empty cell is guessed to
\* be a sun.
applyAllRulesGuess(g, cons, n) ==
  LET fired == {j \in 1..10 : Rule(j, g, cons, n).found}
      open == {k \in 0..(n * n - 1) : g[k \div n][k % n] = Null}
      k == FirstIndex(open)
  IN IF fired # {} THEN Rule(Min(fired), g, cons, n)
     ELSE IF k >= 0
     THEN SolvingStep("Guess", <<>>, <<k \div n, k % n>>, Sun, SetCell(g, k \div n, k % n, Sun))
     ELSE NotFound

\* A faulty dispatcher: rule 8 is tried before the other rules.
applyAllRulesModifierFirst(g, cons, n) ==
  LET fired == {j \in 1..10 : Rule(j, g, cons, n).found}
  IN IF 8 \in fired THEN Rule(8, g, cons, n)
     ELSE IF fired # {} THEN Rule(Min(fired), g, cons, n)
     ELSE NotFound

\* Apply the rules in order and return the first step found.
applyAllRules(g, cons, n) ==
  LET s1 == applyNoThreeRule(g, cons, n)
      s2 == applyParityRule(g, cons, n)
      s3 == applyConstraintPropagation(g, cons, n)
      s4 == applyEdgeCases(g, cons, n)
      s5 == applyGapRule(g, cons, n)
      s6 == applyTwoEqualsAtEndRule(g, cons, n)
      s7 == applySecondToLastEqualsFirstRule(g, cons, n)
      s8 == applyModifierWithTwoEqualsRule(g, cons, n)
      s9 == applyEndWithEqualsConstraintRule(g, cons, n)
      s10 == applyAdjacentEqualsConstraintRule(g, cons, n)
  IN IF s1.found THEN s1
     ELSE IF s2.found THEN s2
     ELSE IF s3.found THEN s3
     ELSE IF s4.found THEN s4
     ELSE IF s5.found THEN s5
     ELSE IF s6.found THEN s6
     ELSE IF s7.found THEN s7
     ELSE IF s8.found THEN s8
     ELSE IF s9.found THEN s9
     ELSE s10

(***************************************************************************)
(* The fixpoint driver and the single-step entry point                     *)
(***************************************************************************)

\* A faulty cap: far fewer passes than a grid has cells.
maxIterationsShort(n) == n \div 3

\* size * size * 2
maxIterations(n) == n * n * 2

\* Row arrays are objects: the rows of the caller's grid are the objects
\* 0..n-1, in order.
CallerRows(n) == [r \in Idx(n) |-> r]

\* grid.slice(): a new outer array holding the very same row objects.
ShallowCopyRows(rows, n) == rows

\* grid.map(row => row.slice()): a new outer array of n new row objects.
CopyRows(rows, n) == [r \in Idx(n) |-> n + rows[r]]

\* What the caller's grid g holds once a callee has left the cells `written`
\* in a working array whose rows are the objects `rows`: a row of the caller
\* changes exactly when the working array holds that same row object.
ArgumentAfterCall(g, rows, written, n) ==
  [r \in Idx(n) |->
     IF \E q \in Idx(n) : rows[q] = CallerRows(n)[r]
     THEN written[CHOOSE q \in Idx(n) : rows[q] = CallerRows(n)[r]]
     ELSE g[r]]

\* A faulty snapshot: the working array itself is stored, so the snapshot
\* reads whatever the working array holds.
StoredSnapshotByReference(snap, written, n) == written

\* What a stored snapshot snap (gridCopy.map(row => row.slice())) holds once
\* the working array holds the cells `written`: a row of the snapshot changes
\* exactly when the working array holds that same row object.
StoredSnapshot(snap, written, n) ==
  LET working == CopyRows(CallerRows(n), n)
      rows == CopyRows(working, n)
  IN [r \in Idx(n) |->
        IF \E q \in Idx(n) : working[q] = rows[r]
        THEN written[CHOOSE q \in Idx(n) : working[q] = rows[r]]
        ELSE snap[r]]

\* The steps recorded so far, as they read once the working array holds the
\* cells `written`.
StoredSteps(ss, written, n) ==
  [i \in 1..Len(ss) |->
     [ss[i] EXCEPT !.gridStateBefore = StoredSnapshot(@, written, n),
                   !.gridStateAfter = StoredSnapshot(@, written, n)]]

\* A SolvingStep with its two snapshots attached
\* (step.gridStateBefore = ..., step.gridStateAfter = ...).
WithSnapshots(step, before, after) ==
  [found |-> TRUE, ruleName |-> step.ruleName, affectedCells |-> step.affectedCells,
   resultCell |-> step.resultCell, resultValue |-> step.resultValue,
   gridStateBefore |-> before, gridStateAfter |-> after]

\* A faulty getNextStep: the rules run on the array the "before" snapshot
\* refers to, so the snapshot shows the grid after the write.
getNextStepSharedSnapshot(g, cons, n) ==
  LET step == applyAllRules(CopyGrid(g), cons, n)
  IN IF step.found
     THEN WithSnapshots(step, step.grid, CopyGrid(step.grid))
     ELSE NotFound

\* getNextStep: one dispatch on a copy of the caller's grid.
getNextStep(g, cons, n) ==
  LET gridCopy == CopyGrid(g)
      gridStateBefore == CopyGrid(g)
      step == applyAllRules(gridCopy, cons, n)
  IN IF step.found
     THEN WithSnapshots(step, gridStateBefore, CopyGrid(step.grid))
     ELSE NotFound

RECURSIVE SolveLoop(_, _, _, _, _)
\* One pass of the loop body once applyAllRules has answered with `step`:
\* record the step with its snapshots, stop on a complete grid or on no step,
\* else go round again.
SolveLoopBody(gridCopy, cons, n, steps, iterations, step) ==
  IF step.found
  THEN IF isComplete(step.grid, n)
       THEN Append(steps, WithSnapshots(step, CopyGrid(gridCopy), CopyGrid(step.grid)))
       ELSE SolveLoop(step.grid, cons, n,
                      Append(steps, WithSnapshots(step, CopyGrid(gridCopy), CopyGrid(step.grid))),
                      iterations + 1)
  ELSE steps

\* The while loop of solvePuzzleStepByStep from a given working copy, step
\* list and iteration count: the step list it returns.
SolveLoop(gridCopy, cons, n, steps, iterations) ==
  IF ~(iterations < maxIterations(n)) THEN steps
  ELSE SolveLoopBody(gridCopy, cons, n, steps, iterations, applyAllRules(gridCopy, cons, n))

\* solvePuzzleStepByStep as one call: the steps it returns.
solvePuzzleStepByStep(g, cons, n) == SolveLoop(CopyGrid(g), cons, n, <<>>, 0)

\* The caller's replay of a step: copy, then set resultCell to resultValue
\* (newGrid[step.resultCell[0]][step.resultCell[1]] = step.resultValue).
ApplyStep(g, step) ==
  SetCell(CopyGrid(g), step.resultCell[1], step.resultCell[2], step.resultValue)

RECURSIVE ApplySteps(_, _)
\* steps.forEach(step => { solvedGrid[...] = step.resultValue })
ApplySteps(g, ss) ==
  IF ss = <<>> THEN g ELSE ApplySteps(ApplyStep(g, Head(ss)), Tail(ss))

(***************************************************************************)
(* Inputs                                                                  *)
(***************************************************************************)

\* Sparse inputs: at most MaxFilled cells of the first line are filled.
MaxFilled == 4
\* Dense inputs: at most MaxBlank cells of the first line of a solved grid are
\* emptied.
MaxBlank == 2
\* At most MaxCons constraints are placed before solving.
MaxCons == 1

Transpose(g, n) == [r \in Idx(n) |-> [c \in Idx(n) |-> g[c][r]]]

TransposeCons(cons) ==
  LET T(k) == <<k[2], k[1], k[4], k[3]>>
  IN [equals |-> [i \in 1..Len(cons.equals) |-> T(cons.equals[i])],
      notEquals |-> [i \in 1..Len(cons.notEquals) |-> T(cons.notEquals[i])]]

\* A complete legal 6 x 6 grid: three of each symbol per line, no run of three.
SolvedRows ==
  << <<Sun, Sun, Moon, Sun, Moon, Moon>>,
     <<Moon, Sun, Sun, Moon, Sun, Moon>>,
     <<Sun, Moon, Sun, Moon, Moon, Sun>>,
     <<Sun, Moon, Moon, Sun, Sun, Moon>>,
     <<Moon, Sun, Moon, Sun, Moon, Sun>>,
     <<Moon, Moon, Sun, Moon, Sun, Sun>> >>

\* The grid whose rows are the given tuples, top to bottom.
FromRows(rows) == [r \in Idx(GRID_SIZE) |-> [c \in Idx(GRID_SIZE) |-> rows[r + 1][c + 1]]]

SolvedGrid == FromRows(SolvedRows)

\* A first row with at most MaxFilled filled cells over an empty rest.
SparseGrids ==
  {[r \in Idx(GRID_SIZE) |-> IF r = 0 THEN f ELSE [c \in Idx(GRID_SIZE) |-> Null]] :
     f \in {h \in [Idx(GRID_SIZE) -> CellValues] :
              Cardinality({c \in Idx(GRID_SIZE) : h[c] # Null}) <= MaxFilled}}

\* The solved grid with at most MaxBlank cells of its first row emptied.
DenseGrids ==
  {[r \in Idx(GRID_SIZE) |-> [c \in Idx(GRID_SIZE) |->
      IF r = 0 /\ c \in B THEN Null ELSE SolvedGrid[r][c]]] :
     B \in {X \in SUBSET Idx(GRID_SIZE) : Cardinality(X) <= MaxBlank}}

StartGrids == SparseGrids \cup DenseGrids

\* The edges a constraint may be placed on, stored as the board stores them
\* (left or upper cell first).
StartEdges == {<<0, 1, 0, 2>>, <<0, 4, 0, 5>>, <<0, 0, 1, 0>>}

SeqsUpTo(S, m) == UNION {[1..k -> S] : k \in 0..m}

\* Constraint sets of at most MaxCons constraints, no edge used twice.
StartConstraints ==
  {[equals |-> p[1], notEquals |-> p[2]] :
     p \in {q \in SeqsUpTo(StartEdges, MaxCons) \X SeqsUpTo(StartEdges, MaxCons) :
              /\ Len(q[1]) + Len(q[2]) <= MaxCons
              /\ \A i, j \in 1..Len(q[1]) : i # j => q[1][i] # q[1][j]
              /\ \A i, j \in 1..Len(q[2]) : i # j => q[2][i] # q[2][j]
              /\ \A i \in 1..Len(q[1]) : \A j \in 1..Len(q[2]) : q[1][i] # q[2][j]}}

\* A grid from the cells that are filled, each <<row, col, value>>.
GridOf(cells) ==
  [r \in Idx(GRID_SIZE) |-> [c \in Idx(GRID_SIZE) |->
     IF \E x \in cells : x[1] = r /\ x[2] = c
     THEN (CHOOSE x \in cells : x[1] = r /\ x[2] = c)[3]
     ELSE Null]]

\* A puzzle with a single solution: fifteen empty cells and one equals
\* constraint between (2,1) and (2,2).
UniquePuzzleRows ==
  << <<Moon, Moon, Null, Sun, Moon, Sun>>,
     <<Sun, Null, Null, Null, Sun, Moon>>,
     <<Moon, Null, Null, Null, Moon, Sun>>,
     <<Null, Sun, Moon, Null, Moon, Null>>,
     <<Null, Moon, Sun, Moon, Sun, Null>>,
     <<Moon, Sun, Null, Moon, Null, Null>> >>

\* Its solution.
UniqueSolutionRows ==
  << <<Moon, Moon, Sun, Sun, Moon, Sun>>,
     <<Sun, Moon, Moon, Sun, Sun, Moon>>,
     <<Moon, Sun, Sun, Moon, Moon, Sun>>,
     <<Sun, Sun, Moon, Sun, Moon, Moon>>,
     <<Sun, Moon, Sun, Moon, Sun, Moon>>,
     <<Moon, Sun, Moon, Moon, Sun, Sun>> >>

\* A solution of the first hand-placed puzzle below.
SparseSolutionRows ==
  << <<Sun, Sun, Moon, Sun, Moon, Moon>>,
     <<Moon, Sun, Sun, Moon, Sun, Moon>>,
     <<Sun, Moon, Moon, Sun, Moon, Sun>>,
     <<Sun, Sun, Moon, Sun, Moon, Moon>>,
     <<Moon, Moon, Sun, Moon, Sun, Sun>>,
     <<Moon, Moon, Sun, Moon, Sun, Sun>> >>

\* Hand-placed puzzles: cells typed in and constraints dropped on edges away
\* from the first line.  The first and the fourth can be solved; the second
\* and the third start with four equal symbols in one line; the fifth starts
\* with two suns across a not-equals edge; the last three have constraints
\* with one filled endpoint, listed against the order of the cells.
ScenarioPuzzles ==
  {[grid |-> GridOf({<<0, 0, Sun>>, <<1, 0, Moon>>, <<2, 0, Sun>>, <<3, 2, Moon>>}),
    constraints |-> [equals |-> <<<<3, 0, 3, 1>>>>, notEquals |-> <<<<0, 0, 1, 0>>>>]],
   [grid |-> GridOf({<<2, 0, Sun>>, <<2, 1, Sun>>, <<2, 3, Sun>>, <<2, 4, Sun>>}),
    constraints |-> [equals |-> <<>>, notEquals |-> <<>>]],
   [grid |-> GridOf({<<0, 4, Moon>>, <<1, 4, Moon>>, <<3, 4, Moon>>, <<4, 4, Moon>>}),
    constraints |-> [equals |-> <<>>, notEquals |-> <<<<3, 4, 4, 4>>>>]],
   [grid |-> FromRows(UniquePuzzleRows),
    constraints |-> [equals |-> <<<<2, 1, 2, 2>>>>, notEquals |-> <<>>]],
   [grid |-> GridOf({<<0, 0, Sun>>, <<0, 1, Sun>>}),
    constraints |-> [equals |-> <<>>, notEquals |-> <<<<0, 0, 0, 1>>>>]],
   [grid |-> GridOf({<<0, 0, Sun>>}),
    constraints |-> [equals |-> <<<<0, 0, 0, 1>>>>, notEquals |-> <<>>]],
   [grid |-> GridOf({<<0, 0, Sun>>, <<2, 2, Moon>>}),
    constraints |-> [equals |-> <<<<2, 2, 2, 3>>, <<0, 0, 0, 1>>>>, notEquals |-> <<>>]],
   [grid |-> GridOf({<<0, 0, Sun>>, <<2, 3, Moon>>}),
    constraints |-> [equals |-> <<<<2, 2, 2, 3>>>>, notEquals |-> <<<<0, 0, 0, 1>>>>]]}

\* Every puzzle a run may start from.
StartPuzzles ==
  {[grid |-> IF x[3] THEN Transpose(x[1], GRID_SIZE) ELSE x[1],
    constraints |-> IF x[3] THEN TransposeCons(x[2]) ELSE x[2]] :
     x \in StartGrids \X StartConstraints \X BOOLEAN}
  \cup ScenarioPuzzles

(***************************************************************************)
(* State                                                                   *)
(***************************************************************************)

VARIABLES
  grid,         \* the caller's grid
  constraints,  \* the caller's constraint set
  pc,           \* "idle", "validated", "solving", "returned", "asked", "stepping", "stuck"
  gridCopy,     \* solvePuzzleStepByStep's working copy
  steps,        \* solvePuzzleStepByStep's step list
  iterations,   \* solvePuzzleStepByStep's loop counter
  dispatches,   \* calls of applyAllRules made by the current run
  exit,         \* how the run's loop was left: "complete", "stuck" or "cap"
  nextStep,     \* what the last getNextStep call returned
  validation,   \* what the last validateStartingPosition call returned
  lockedCells,     \* the board's locked-cell map
  boardComplete,   \* the board's isComplete flag
  validationError, \* the board's message, [kind |-> "none"] for null
  allSteps,        \* the board's step history
  stepByStepMode,  \* the board is in step-by-step mode
  solverCalled,    \* the last board handler called the solver
  boardEvents,     \* the number of board handlers run so far
  isViewingHistory, \* the board shows the grid of an earlier step
  viewingStepIndex, \* the step whose grid is shown, Unset for null
  initialGrid,     \* the grid the last solve started from, Unset for null
  latestGrid       \* the grid the solving has reached, Unset for null

\* The board's own state, beside grid and constraints.
boardVars == <<lockedCells, boardComplete, validationError, allSteps, stepByStepMode,
               solverCalled, boardEvents, isViewingHistory, viewingStepIndex,
               initialGrid, latestGrid>>

\* The history view's own state.
historyVars == <<isViewingHistory, viewingStepIndex, initialGrid, latestGrid>>

\* The state of a solver or validator call.
callVars == <<pc, gridCopy, steps, iterations, dispatches, exit, nextStep, validation>>

vars == <<grid, constraints, pc, gridCopy, steps, iterations, dispatches, exit,
          nextStep, validation, lockedCells, boardComplete, validationError, allSteps,
          stepByStepMode, solverCalled, boardEvents, isViewingHistory,
          viewingStepIndex, initialGrid, latestGrid>>

\* useState(null), and what a state holds once it has been set to x.
Unset == <<>>
Held(x) == <<x>>

\* Array(GRID_SIZE).fill(null).map(() => Array(GRID_SIZE).fill(false))
NoLockedCells == [r \in Idx(GRID_SIZE) |-> [c \in Idx(GRID_SIZE) |-> FALSE]]

\* The board as it is mounted, for a given grid: nothing locked, no message, no
\* history, not in step-by-step mode.
BoardIdle(g) ==
  /\ lockedCells = NoLockedCells
  /\ boardComplete = checkWin(g, GRID_SIZE)
  /\ validationError = [kind |-> "none"]
  /\ allSteps = <<>>
  /\ stepByStepMode = FALSE
  /\ solverCalled = FALSE
  /\ boardEvents = 0
  /\ isViewingHistory = FALSE
  /\ viewingStepIndex = Unset
  /\ initialGrid = Unset
  /\ latestGrid = Unset

\* No call is in progress and none has returned.
NoCall ==
  /\ pc = "idle"
  /\ gridCopy = EmptyGrid(GRID_SIZE)
  /\ steps = <<>>
  /\ iterations = 0
  /\ dispatches = 0
  /\ exit = ""
  /\ nextStep = NotFound
  /\ validation = [isValid |-> TRUE, errors |-> <<>>]

Init ==
  /\ \E p \in StartPuzzles :
       /\ grid = p.grid
       /\ constraints = p.constraints
  /\ pc = "idle"
  /\ gridCopy = EmptyGrid(GRID_SIZE)
  /\ steps = <<>>
  /\ iterations = 0
  /\ dispatches = 0
  /\ exit = ""
  /\ nextStep = NotFound
  /\ validation = [isValid |-> TRUE, errors |-> <<>>]
  /\ BoardIdle(grid)

\* validateStartingPosition is called on the caller's grid.
Validate ==
  /\ pc = "idle"
  /\ validation' = validateStartingPosition(grid, constraints, GRID_SIZE)
  /\ pc' = "validated"
  /\ UNCHANGED <<grid, constraints, gridCopy, steps, iterations, dispatches, exit, nextStep>>
  /\ UNCHANGED boardVars

\* solvePuzzleStepByStep is entered: the copy is taken, the loop not yet run.
StartSolve ==
  /\ pc = "idle"
  /\ gridCopy' = CopyGrid(grid)
  /\ steps' = <<>>
  /\ iterations' = 0
  /\ dispatches' = 0
  /\ exit' = ""
  /\ pc' = IF 0 < maxIterations(GRID_SIZE) THEN "solving" ELSE "returned"
  /\ grid' = ArgumentAfterCall(grid, CopyRows(CallerRows(GRID_SIZE), GRID_SIZE), gridCopy',
                                GRID_SIZE)
  /\ UNCHANGED <<constraints, nextStep, validation>>
  /\ UNCHANGED boardVars

\* One pass of solvePuzzleStepByStep's while loop.
SolveIterate ==
  /\ pc = "solving"
  /\ \E step \in {applyAllRules(gridCopy, constraints, GRID_SIZE)} :
     LET gridStateBefore == CopyGrid(gridCopy)
         after == IF step.found THEN step.grid ELSE gridCopy
         done == isComplete(after, GRID_SIZE)
     IN /\ gridCopy' = after
        /\ steps' = IF step.found
                    THEN Append(StoredSteps(steps, after, GRID_SIZE),
                                WithSnapshots(step,
                                              StoredSnapshot(gridStateBefore, after, GRID_SIZE),
                                              CopyGrid(after)))
                    ELSE steps
        /\ dispatches' = dispatches + 1
        /\ iterations' = IF done \/ ~step.found THEN iterations ELSE iterations + 1
        /\ exit' = IF done THEN "complete"
                   ELSE IF ~step.found THEN "stuck"
                   ELSE IF iterations + 1 < maxIterations(GRID_SIZE) THEN "" ELSE "cap"
        /\ pc' = IF exit' = "" THEN "solving" ELSE "returned"
        /\ grid' = ArgumentAfterCall(grid, CopyRows(CallerRows(GRID_SIZE), GRID_SIZE), after,
                                      GRID_SIZE)
  /\ UNCHANGED <<constraints, nextStep, validation>>
  /\ UNCHANGED boardVars

\* getNextStep is called on the caller's grid.
NextStepCallWith(size) ==
  /\ pc \in {"idle", "stepping"}
  /\ nextStep' = getNextStep(grid, constraints, size)
  /\ grid' = ArgumentAfterCall(grid, CopyRows(CallerRows(size), size),
                                IF nextStep'.found THEN nextStep'.gridStateAfter ELSE grid,
                                size)
  /\ pc' = IF nextStep'.found THEN "asked" ELSE "stuck"
  /\ UNCHANGED <<constraints, gridCopy, steps, iterations, dispatches, exit, validation>>
  /\ UNCHANGED boardVars

\* getNextStep(grid, constraints, GRID_SIZE)
NextStepCall == NextStepCallWith(GRID_SIZE)

\* The caller applies the step it was given to its own grid.
ApplyNextStep ==
  /\ pc = "asked"
  /\ grid' = ApplyStep(grid, nextStep)
  /\ pc' = "stepping"
  /\ UNCHANGED <<constraints, gridCopy, steps, iterations, dispatches, exit, nextStep,
                 validation>>
  /\ UNCHANGED boardVars

Next == Validate \/ StartSolve \/ SolveIterate \/ NextStepCall \/ ApplyNextStep

Spec == Init /\ [][Next]_vars

(***************************************************************************)
(* Calls with a malformed constraint set                                   *)
(***************************************************************************)

\* Malformed inputs: at most MaxMalformedFilled cells of the first row filled.
MaxMalformedFilled == 2

\* Constraints whose two endpoints are one and the same cell.
SameCellConstraints == {<<0, 0, 0, 0>>, <<0, 1, 0, 1>>, <<1, 0, 1, 0>>}

\* Arguments an outside caller may pass to the exported functions: a sparse
\* grid and one constraint joining a cell to itself.
MalformedPuzzles ==
  {[grid |-> g, constraints |-> c] :
     g \in {h \in SparseGrids : EmptyCount(h, GRID_SIZE) >= GRID_SIZE * GRID_SIZE - MaxMalformedFilled},
     c \in {[equals |-> <<k>>, notEquals |-> <<>>] : k \in SameCellConstraints}
          \cup {[equals |-> <<>>, notEquals |-> <<k>>] : k \in SameCellConstraints}}

MalformedInit ==
  /\ \E p \in MalformedPuzzles :
       /\ grid = p.grid
       /\ constraints = p.constraints
  /\ NoCall
  /\ BoardIdle(grid)

\* The same calls as in Spec, made on the malformed arguments.
MalformedSpec == MalformedInit /\ [][Next]_vars

(***************************************************************************)
(* The board (GameBoard): clicks, constraint edits and the solve buttons   *)
(***************************************************************************)

\* A board holds at most MaxBoardCons constraints.
MaxBoardCons == 2

\* A run of the board is followed for MaxBoardEvents handler calls.
MaxBoardEvents == 5

\* One more handler call.
BoardEvent ==
  /\ boardEvents < MaxBoardEvents
  /\ boardEvents' = boardEvents + 1

\* The cell that is clicked.
BoardCells == {<<0, 0>>}

\* The edges a constraint is dropped on or removed from, as a cell reports
\* them: [row1, col1, row2, col2] with the left or upper cell first.
BoardEdges == {<<0, 0, 0, 1>>, <<0, 0, 1, 0>>}

\* The grids the board has been clicked into when the run starts: the solved
\* grid with the clicked cell still open, and one sun next to the clicked cell.
BoardGrids ==
  {SetCell(SolvedGrid, 0, 0, Null), SetCell(EmptyGrid(GRID_SIZE), 0, 1, Sun)}

BoardInit ==
  /\ grid \in BoardGrids
  /\ constraints = [equals |-> <<>>, notEquals |-> <<>>]
  /\ NoCall
  /\ BoardIdle(grid)

\* c is the constraint on the edge (row1, col1)-(row2, col2), either way round.
OnEdge(c, row1, col1, row2, col2) ==
  \/ c[1] = row1 /\ c[2] = col1 /\ c[3] = row2 /\ c[4] = col2
  \/ c[1] = row2 /\ c[2] = col2 /\ c[3] = row1 /\ c[4] = col1

\* A faulty filter: nothing is taken off the list.
WithoutEdgeKeepAll(list, row1, col1, row2, col2) == list

\* list.filter(c => !(c is on the edge))
WithoutEdge(list, row1, col1, row2, col2) ==
  LET keep == Ascending({i \in 1..Len(list) : ~OnEdge(list[i], row1, col1, row2, col2)})
  IN [j \in 1..Len(keep) |-> list[keep[j]]]

\* handleEdgeDrop's normalisation: the smaller column (row) first.
NormalizedEdge(edge) ==
  IF edge[1] = edge[3]
  THEN IF edge[2] > edge[4] THEN <<edge[1], edge[4], edge[3], edge[2]>> ELSE edge
  ELSE IF edge[1] > edge[3] THEN <<edge[3], edge[4], edge[1], edge[2]>> ELSE edge

\* grid.map(row => row.map(cell => cell !== null))
LockedFrom(g) == [r \in Idx(GRID_SIZE) |-> [c \in Idx(GRID_SIZE) |-> g[r][c] # Null]]

\* A cell is clicked: empty -> sun -> moon -> empty, unless it is locked; the
\* win flag follows checkWin.
handleCellClick(row, col) ==
  /\ BoardEvent
  /\ ~lockedCells[row][col]
  /\ LET currentValue == grid[row][col]
         newGrid == SetCell(CopyGrid(grid), row, col,
                            IF currentValue = Null THEN Sun
                            ELSE IF currentValue = Sun THEN Moon ELSE Null)
     IN /\ grid' = newGrid
        /\ boardComplete' = checkWin(newGrid, GRID_SIZE)
  /\ solverCalled' = FALSE
  /\ UNCHANGED <<constraints, lockedCells, validationError, allSteps, stepByStepMode>>
  /\ UNCHANGED historyVars
  /\ UNCHANGED callVars

\* A constraint is dropped on an edge: whatever was on the edge is replaced.
handleEdgeDrop(edge, constraintType) ==
  LET k == NormalizedEdge(edge)
      equals == WithoutEdge(constraints.equals, k[1], k[2], k[3], k[4])
      notEquals == WithoutEdge(constraints.notEquals, k[1], k[2], k[3], k[4])
  IN /\ BoardEvent
     /\ Len(equals) + Len(notEquals) < MaxBoardCons
     /\ constraints' = IF constraintType = "equals"
                       THEN [equals |-> Append(equals, k), notEquals |-> notEquals]
                       ELSE [equals |-> equals, notEquals |-> Append(notEquals, k)]
     /\ solverCalled' = FALSE
     /\ UNCHANGED <<grid, lockedCells, boardComplete, validationError, allSteps,
                    stepByStepMode>>
     /\ UNCHANGED historyVars
     /\ UNCHANGED callVars

\* A constraint is clicked away.
handleConstraintRemove(edge) ==
  /\ BoardEvent
  /\ \E c \in {constraints.equals[i] : i \in 1..Len(constraints.equals)}
               \cup {constraints.notEquals[i] : i \in 1..Len(constraints.notEquals)} :
       OnEdge(c, edge[1], edge[2], edge[3], edge[4])
  /\ constraints' =
       [equals |-> WithoutEdge(constraints.equals, edge[1], edge[2], edge[3], edge[4]),
        notEquals |-> WithoutEdge(constraints.notEquals, edge[1], edge[2], edge[3], edge[4])]
  /\ solverCalled' = FALSE
  /\ UNCHANGED <<grid, lockedCells, boardComplete, validationError, allSteps, stepByStepMode>>
  /\ UNCHANGED historyVars
  /\ UNCHANGED callVars

\* Clear Grid.
clearGrid ==
  /\ BoardEvent
  /\ grid' = EmptyGrid(GRID_SIZE)
  /\ constraints' = [equals |-> <<>>, notEquals |-> <<>>]
  /\ boardComplete' = FALSE
  /\ validationError' = [kind |-> "none"]
  /\ lockedCells' = NoLockedCells
  /\ stepByStepMode' = FALSE
  /\ allSteps' = <<>>
  /\ viewingStepIndex' = Unset
  /\ isViewingHistory' = FALSE
  /\ initialGrid' = Unset
  /\ latestGrid' = Unset
  /\ solverCalled' = FALSE
  /\ UNCHANGED callVars

\* Solve All: the history view is left, then the already-solved gate, the
\* validation gate, and the whole run with its steps applied to the grid.
handleSolve ==
  /\ BoardEvent
  /\ ~stepByStepMode
  /\ stepByStepMode' = FALSE
  /\ viewingStepIndex' = Unset
  /\ isViewingHistory' = FALSE
  /\ IF checkWin(grid, GRID_SIZE)
     THEN /\ validationError' = [kind |-> "Puzzle is already solved!"]
          /\ solverCalled' = FALSE
          /\ UNCHANGED <<grid, lockedCells, boardComplete, allSteps, initialGrid, latestGrid>>
     ELSE \E validation_ \in {validateStartingPosition(grid, constraints, GRID_SIZE)} :
          IF ~validation_.isValid
          THEN /\ validationError' = [kind |-> "errors", errors |-> validation_.errors]
               /\ solverCalled' = FALSE
               /\ UNCHANGED <<grid, lockedCells, boardComplete, allSteps, initialGrid,
                              latestGrid>>
          ELSE \E found \in {solvePuzzleStepByStep(grid, constraints, GRID_SIZE)} :
               /\ solverCalled' = TRUE
               /\ initialGrid' = Held(CopyGrid(grid))
               /\ allSteps' = found
               /\ IF Len(found) = 0
                  THEN /\ lockedCells' = NoLockedCells
                       /\ validationError' = [kind |-> "Puzzle could not be solved."]
                       /\ UNCHANGED <<grid, boardComplete, latestGrid>>
                  ELSE LET solvedGrid == ApplySteps(CopyGrid(grid), found)
                       IN /\ lockedCells' = LockedFrom(grid)
                          /\ grid' = solvedGrid
                          /\ latestGrid' = Held(CopyGrid(solvedGrid))
                          /\ boardComplete' = checkWin(solvedGrid, GRID_SIZE)
                          /\ validationError' = [kind |-> "none"]
  /\ UNCHANGED constraints
  /\ UNCHANGED callVars

\* const gridToUse = isViewingHistory && latestGrid ? latestGrid : grid
gridToUse == IF isViewingHistory /\ latestGrid # Unset THEN latestGrid[1] ELSE grid

\* What handleNextStep does to the board with the state it was rendered with.
\* Its caller has left the history `before`, the mode `mode`, the message
\* `message`, the history-view flag `viewing`, the viewed index `index` and
\* the latest grid `latest`. The step is asked for the latest grid when the
\* history is being viewed, else for the displayed grid. No step ends
\* step-by-step mode with a message and leaves the grid alone; a step leaves
\* the history view, is added to the history and applied to the grid it was
\* asked for, and a win ends the mode.
NextStepEffect(before, mode, message, viewing, index, latest) ==
  \E step \in {getNextStep(gridToUse, constraints, GRID_SIZE)} :
    /\ solverCalled' = TRUE
    /\ IF ~step.found
       THEN /\ validationError' = [kind |-> "No more moves can be made."]
            /\ stepByStepMode' = FALSE
            /\ allSteps' = before
            /\ isViewingHistory' = viewing
            /\ viewingStepIndex' = index
            /\ latestGrid' = latest
            /\ UNCHANGED <<grid, boardComplete>>
       ELSE LET newGrid == ApplyStep(gridToUse, step)
            IN /\ isViewingHistory' = IF isViewingHistory THEN FALSE ELSE viewing
               /\ viewingStepIndex' = IF isViewingHistory THEN Unset ELSE index
               /\ allSteps' = Append(before, step)
               /\ grid' = newGrid
               /\ latestGrid' = Held(CopyGrid(newGrid))
               /\ validationError' = message
               /\ IF checkWin(newGrid, GRID_SIZE)
                  THEN boardComplete' = TRUE /\ stepByStepMode' = FALSE
                  ELSE boardComplete' = boardComplete /\ stepByStepMode' = mode

\* Solve Step-by-Step: the history is emptied and the history view left, then
\* the two gates on the displayed grid, then its cells are locked, it is kept
\* as the initial and the latest grid, and the first step is taken by
\* handleNextStep as it was rendered, before any of these updates.
handleSolveStepByStep ==
  /\ BoardEvent
  /\ ~stepByStepMode
  /\ IF checkWin(grid, GRID_SIZE)
     THEN /\ validationError' = [kind |-> "Puzzle is already solved!"]
          /\ stepByStepMode' = FALSE
          /\ allSteps' = <<>>
          /\ viewingStepIndex' = Unset
          /\ isViewingHistory' = FALSE
          /\ solverCalled' = FALSE
          /\ UNCHANGED <<grid, lockedCells, boardComplete, initialGrid, latestGrid>>
     ELSE \E validation_ \in {validateStartingPosition(grid, constraints, GRID_SIZE)} :
          IF ~validation_.isValid
          THEN /\ validationError' = [kind |-> "errors", errors |-> validation_.errors]
               /\ stepByStepMode' = FALSE
               /\ allSteps' = <<>>
               /\ viewingStepIndex' = Unset
               /\ isViewingHistory' = FALSE
               /\ solverCalled' = FALSE
               /\ UNCHANGED <<grid, lockedCells, boardComplete, initialGrid, latestGrid>>
          ELSE /\ lockedCells' = LockedFrom(grid)
               /\ initialGrid' = Held(CopyGrid(grid))
               /\ NextStepEffect(<<>>, TRUE, [kind |-> "none"], FALSE, Unset,
                                 Held(CopyGrid(grid)))
  /\ UNCHANGED constraints
  /\ UNCHANGED callVars

\* Next Step, offered while the board is in step-by-step mode.
handleNextStep ==
  /\ BoardEvent
  /\ stepByStepMode
  /\ NextStepEffect(allSteps, stepByStepMode, validationError, isViewingHistory,
                    viewingStepIndex, latestGrid)
  /\ UNCHANGED <<constraints, lockedCells, initialGrid>>
  /\ UNCHANGED callVars

\* Stop, offered while the board is in step-by-step mode: the mode and the
\* history view end, the displayed grid stays.
handleStopStepByStep ==
  /\ BoardEvent
  /\ stepByStepMode
  /\ stepByStepMode' = FALSE
  /\ isViewingHistory' = FALSE
  /\ viewingStepIndex' = Unset
  /\ solverCalled' = FALSE
  /\ UNCHANGED <<grid, constraints, lockedCells, boardComplete, validationError, allSteps,
                 initialGrid, latestGrid>>
  /\ UNCHANGED callVars

\* A step of the history panel is clicked: the board shows the grid after that
\* step (every recorded step carries gridStateAfter).
handleStepClick(stepIndex) ==
  /\ BoardEvent
  /\ ~(stepIndex < 0 \/ stepIndex >= Len(allSteps))
  /\ isViewingHistory' = TRUE
  /\ viewingStepIndex' = Held(stepIndex)
  /\ grid' = CopyGrid(allSteps[stepIndex + 1].gridStateAfter)
  /\ solverCalled' = FALSE
  /\ UNCHANGED <<constraints, lockedCells, boardComplete, validationError, allSteps,
                 stepByStepMode, initialGrid, latestGrid>>
  /\ UNCHANGED callVars

\* Exit History View, offered while the history is viewed: the board shows the
\* initial grid with every step of the history applied.
handleExitHistoryView ==
  /\ BoardEvent
  /\ Len(allSteps) > 0
  /\ isViewingHistory
  /\ isViewingHistory' = FALSE
  /\ viewingStepIndex' = Unset
  /\ grid' = IF Len(allSteps) > 0 /\ initialGrid # Unset
             THEN ApplySteps(CopyGrid(initialGrid[1]), allSteps)
             ELSE grid
  /\ solverCalled' = FALSE
  /\ UNCHANGED <<constraints, lockedCells, boardComplete, validationError, allSteps,
                 stepByStepMode, initialGrid, latestGrid>>
  /\ UNCHANGED callVars

\* The steps the history panel lists, by index.
StepIndices == 0..(Len(allSteps) - 1)

BoardNext ==
  \/ \E cell \in BoardCells : handleCellClick(cell[1], cell[2])
  \/ \E edge \in BoardEdges, constraintType \in {"equals", "notEquals"} :
       handleEdgeDrop(edge, constraintType)
  \/ \E edge \in BoardEdges : handleConstraintRemove(edge)
  \/ clearGrid
  \/ handleSolve
  \/ handleSolveStepByStep
  \/ handleNextStep
  \/ handleStopStepByStep
  \/ \E stepIndex \in StepIndices : handleStepClick(stepIndex)
  \/ handleExitHistoryView

BoardSpec == BoardInit /\ [][BoardNext]_vars

(***************************************************************************)
(* The rule engine asked for steps on grids of other sizes                 *)
(***************************************************************************)

\* The sizes the rules are called with.
LineSizes == {4, 6, 8}

\* At most MaxLineFilled cells of the one line are filled.
MaxLineFilled == 3

\* grid.length
SizeOf(g) == Cardinality(DOMAIN g)

\* Grids of a size in LineSizes with its first row, or its first column, holding
\* at most MaxLineFilled filled cells over an empty rest.
LineGrids ==
  UNION {{[r \in Idx(n) |-> [c \in Idx(n) |->
            IF (IF x[2] THEN c ELSE r) = 0 THEN x[1][IF x[2] THEN r ELSE c] ELSE Null]] :
          x \in {h \in [Idx(n) -> CellValues] :
                   Cardinality({c \in Idx(n) : h[c] # Null}) <= MaxLineFilled} \X BOOLEAN} :
         n \in LineSizes}

LineInit ==
  /\ grid \in LineGrids
  /\ constraints = [equals |-> <<>>, notEquals |-> <<>>]
  /\ NoCall
  /\ lockedCells = NoLockedCells
  /\ boardComplete = FALSE
  /\ validationError = [kind |-> "none"]
  /\ allSteps = <<>>
  /\ stepByStepMode = FALSE
  /\ solverCalled = FALSE
  /\ boardEvents = 0
  /\ isViewingHistory = FALSE
  /\ viewingStepIndex = Unset
  /\ initialGrid = Unset
  /\ latestGrid = Unset

\* getNextStep(grid, constraints, size) with the grid's own size: the three
\* line-end rules are private to the rule engine and run only from
\* applyAllRules, each after the rules before it have found nothing.
LineNextStepCall == NextStepCallWith(SizeOf(grid))

LineNext == LineNextStepCall \/ ApplyNextStep

LineSpec == LineInit /\ [][LineNext]_vars

(***************************************************************************)
(* Properties                                                              *)
(***************************************************************************)

\* The steps handed out so far: those the run has recorded and the one the
\* last getNextStep call returned.
RecordedSteps ==
  {steps[i] : i \in 1..Len(steps)} \cup (IF nextStep.found THEN {nextStep} ELSE {})

\* The priority numbers of the rules whose pattern is present in g.
Applicable(g) == {j \in 1..10 : Rule(j, g, constraints, GRID_SIZE).found}

\* The step the lowest-numbered applicable rule produces alone on the grid
\* `before`, with the snapshots a caller is given.
LowestRuleStep(before) ==
  LET r == Rule(Min(Applicable(before)), before, constraints, GRID_SIZE)
  IN WithSnapshots(r, before, r.grid)

\* s fills exactly one cell, and that cell was empty.
FillsOneCell(s) ==
  LET r == s.resultCell[1]
      c == s.resultCell[2]
  IN /\ s.gridStateBefore[r][c] = Null
     /\ s.resultValue \in {Sun, Moon}
     /\ s.gridStateAfter[r][c] = s.resultValue
     /\ \A x \in Idx(GRID_SIZE), y \in Idx(GRID_SIZE) :
          <<x, y>> # <<r, c>> => s.gridStateAfter[x][y] = s.gridStateBefore[x][y]
     /\ EmptyCount(s.gridStateAfter, GRID_SIZE) = EmptyCount(s.gridStateBefore, GRID_SIZE) - 1

\* Complete legal grids, each with its transpose.
KnownSolutions ==
  LET direct == {SolvedGrid, FromRows(UniqueSolutionRows), FromRows(SparseSolutionRows)}
  IN direct \cup {Transpose(s, GRID_SIZE) : s \in direct}

\* The puzzle can be solved: one of the known complete grids agrees with every
\* filled cell and is legal under the constraints.
HasKnownSolution ==
  \E s \in KnownSolutions :
    /\ \A r \in Idx(GRID_SIZE), c \in Idx(GRID_SIZE) : grid[r][c] # Null => grid[r][c] = s[r][c]
    /\ isComplete(s, GRID_SIZE)
    /\ isValidPartialSolution(s, constraints, GRID_SIZE)

\* C1 (rule soundness): when the grid solvePuzzleStepByStep is given is legal
\* under isValidPartialSolution, the grid after every step the run records is
\* legal too.  Stated here for the puzzles that have a known solution.
RuleSoundness ==
  (isValidPartialSolution(grid, constraints, GRID_SIZE) /\ HasKnownSolution)
    => \A i \in 1..Len(steps) :
         isValidPartialSolution(steps[i].gridStateAfter, constraints, GRID_SIZE)

\* C2: every step returned by getNextStep or recorded by solvePuzzleStepByStep
\* fills exactly one cell: resultCell is empty before and holds resultValue
\* after, every other cell is the same before and after, and the count of
\* empty cells drops by one.
EveryStepFillsOneEmptyCell == \A s \in RecordedSteps : FillsOneCell(s)

\* A run has recorded steps of two different rules.
StepsOfTwoRulesRecorded ==
  /\ pc = "returned"
  /\ Len(steps) >= 2
  /\ steps[1].ruleName # steps[2].ruleName

\* C3: when solvePuzzleStepByStep leaves its loop because its working copy has
\* no empty cell, that final grid is legal under isValidPartialSolution.
\* Stated here for the legal starting grids that have a known solution.
CompleteGridIsLegal ==
  (/\ pc = "returned"
   /\ exit = "complete"
   /\ isValidPartialSolution(grid, constraints, GRID_SIZE)
   /\ HasKnownSolution)
    => isValidPartialSolution(gridCopy, constraints, GRID_SIZE)

\* C4: a run over a grid with E empty cells makes at most E + 1 dispatches,
\* records at most E steps, stays below the cap of 2 * N * N passes and is
\* never left through the cap.
CapNeverBinds ==
  pc \in {"solving", "returned"}
    => /\ dispatches <= EmptyCount(grid, GRID_SIZE) + 1
       /\ Len(steps) <= EmptyCount(grid, GRID_SIZE)
       /\ iterations < maxIterations(GRID_SIZE)
       /\ exit # "cap"

\* A run has filled every empty cell of its grid, one step per cell, and was
\* left because the grid was complete.
RunFilledEveryEmptyCell ==
  /\ pc = "returned"
  /\ exit = "complete"
  /\ Len(steps) >= 2
  /\ Len(steps) = EmptyCount(grid, GRID_SIZE)

\* C5: when solvePuzzleStepByStep has returned, the grid obtained by applying
\* the returned steps to the input has no empty cell, or getNextStep finds no
\* step on it.
ReturnsAtFixpoint ==
  pc = "returned"
    => LET final == ApplySteps(grid, steps)
       IN \/ isComplete(final, GRID_SIZE)
          \/ ~getNextStep(final, constraints, GRID_SIZE).found

\* A run has recorded several steps and was left because no rule fired on a
\* grid that still has empty cells.
RunStuckAfterSteps ==
  /\ pc = "returned"
  /\ exit = "stuck"
  /\ Len(steps) >= 3
  /\ ~isComplete(ApplySteps(grid, steps), GRID_SIZE)

\* C6: the step getNextStep returns, and every step a run records, is the step
\* the lowest-numbered rule whose pattern is present produces when run alone
\* on that grid; no step is returned exactly when no rule's pattern is present.
LowestApplicableRuleWins ==
  /\ pc \in {"asked", "stuck"}
       => IF Applicable(grid) = {} THEN ~nextStep.found
          ELSE nextStep = LowestRuleStep(grid)
  /\ \A i \in 1..Len(steps) :
       /\ Applicable(steps[i].gridStateBefore) # {}
       /\ steps[i] = LowestRuleStep(steps[i].gridStateBefore)
  /\ (pc = "returned" /\ exit = "stuck") => Applicable(gridCopy) = {}

\* getNextStep has returned a step on a grid where several rules apply and the
\* first rule is not one of them.
SeveralRulesApplicable ==
  /\ pc = "asked"
  /\ Cardinality(Applicable(grid)) >= 2
  /\ 1 \notin Applicable(grid)

\* C7: a call of getNextStep or solvePuzzleStepByStep, whether it is entered,
\* iterates or returns, leaves every cell of the caller's grid and every
\* constraint as it was.
CallerInputsUnchanged ==
  [][(StartSolve \/ SolveIterate \/ NextStepCall)
       => (grid' = grid /\ constraints' = constraints)]_vars

\* A run has returned after writing into its working copy, which now differs
\* from the caller's grid.
RunWroteToItsCopy ==
  /\ pc = "returned"
  /\ Len(steps) >= 1
  /\ gridCopy # grid
  /\ Len(constraints.equals) + Len(constraints.notEquals) >= 1

\* C9: for every step, copying gridStateBefore and setting resultCell to
\* resultValue gives gridStateAfter, and resultCell holds resultValue in
\* gridStateAfter.
StepRoundTrip ==
  \A s \in RecordedSteps :
    /\ ApplyStep(s.gridStateBefore, s) = s.gridStateAfter
    /\ s.gridStateAfter[s.resultCell[1]][s.resultCell[2]] = s.resultValue

\* The caller has applied a returned step to its grid and holds the step's
\* gridStateAfter.
CallerAppliedStep ==
  /\ pc = "stepping"
  /\ nextStep.found
  /\ grid = nextStep.gridStateAfter
  /\ grid # nextStep.gridStateBefore

\* C10: validateStartingPosition reports a grid valid exactly when the grid
\* has a filled cell and isValidPartialSolution holds of it.
ValidatorsAgree ==
  pc = "validated"
    => (validation.isValid
          <=> (/\ hasAnyFilled(grid, GRID_SIZE)
               /\ isValidPartialSolution(grid, constraints, GRID_SIZE)))

\* A grid with a filled cell was validated and rejected for a broken
\* constraint alone.
RejectedForConstraintOnly ==
  /\ pc = "validated"
  /\ hasAnyFilled(grid, GRID_SIZE)
  /\ ~validation.isValid
  /\ Len(validation.errors) = 1
  /\ validation.errors[1][1] \in {"must be equal", "must be different"}

\* The violations a start position has, each as the entry that reports it:
\* one per line and symbol over half the size, one per window of three equal
\* filled cells, one per broken constraint (cells numbered from 1), one for the
\* empty grid.
ExpectedViolations ==
  LET n == GRID_SIZE
      half == n \div 2
      Line(kind, idx, sym) ==
        IF kind = "row" THEN Cardinality({c \in 0..(n - 1) : grid[idx][c] = sym})
        ELSE Cardinality({r \in 0..(n - 1) : grid[r][idx] = sym})
      Cell(kind, idx, j) == IF kind = "row" THEN grid[idx][j] ELSE grid[j][idx]
  IN {<<"row suns", i + 1, Line("row", i, Sun)>> : i \in {x \in 0..(n - 1) : Line("row", x, Sun) > half}}
     \cup {<<"row moons", i + 1, Line("row", i, Moon)>> :
             i \in {x \in 0..(n - 1) : Line("row", x, Moon) > half}}
     \cup {<<"column suns", i + 1, Line("col", i, Sun)>> :
             i \in {x \in 0..(n - 1) : Line("col", x, Sun) > half}}
     \cup {<<"column moons", i + 1, Line("col", i, Moon)>> :
             i \in {x \in 0..(n - 1) : Line("col", x, Moon) > half}}
     \cup {<<kj[1] \o " run", kj[2] + 1, Cell(kj[1], kj[2], kj[3]), kj[3] + 1>> :
             kj \in {x \in {"row", "column"} \X (0..(n - 1)) \X (0..(n - 3)) :
                       /\ Cell(x[1], x[2], x[3]) # Null
                       /\ Cell(x[1], x[2], x[3]) = Cell(x[1], x[2], x[3] + 1)
                       /\ Cell(x[1], x[2], x[3]) = Cell(x[1], x[2], x[3] + 2)}}
     \cup {<<"must be equal", k[1] + 1, k[2] + 1, k[3] + 1, k[4] + 1>> :
             k \in {constraints.equals[i] : i \in {x \in 1..Len(constraints.equals) :
                      LET q == constraints.equals[x]
                      IN grid[q[1]][q[2]] # Null /\ grid[q[3]][q[4]] # Null
                         /\ grid[q[1]][q[2]] # grid[q[3]][q[4]]}}}
     \cup {<<"must be different", k[1] + 1, k[2] + 1, k[3] + 1, k[4] + 1>> :
             k \in {constraints.notEquals[i] : i \in {x \in 1..Len(constraints.notEquals) :
                      LET q == constraints.notEquals[x]
                      IN grid[q[1]][q[2]] # Null /\ grid[q[3]][q[4]] # Null
                         /\ grid[q[1]][q[2]] = grid[q[3]][q[4]]}}}
     \cup (IF \A r \in 0..(n - 1), c \in 0..(n - 1) : grid[r][c] = Null
           THEN {<<"empty">>} ELSE {})

\* C11: validateStartingPosition does not stop at its first violation: its
\* error list holds exactly one entry for every violation of the start
\* position (line counts over half, windows of three, broken Equals and
\* NotEquals constraints naming both cells from 1, the empty grid), and isValid
\* is true exactly when the list is empty; two suns across NotEquals
\* (0,0)-(0,1) are reported as cells (1,1) and (1,2).
ValidatorReportsEveryViolation ==
  pc = "validated"
    => /\ {validation.errors[i] : i \in 1..Len(validation.errors)} = ExpectedViolations
       /\ Len(validation.errors) = Cardinality(ExpectedViolations)
       /\ validation.isValid <=> (validation.errors = <<>>)
       /\ (/\ grid = GridOf({<<0, 0, Sun>>, <<0, 1, Sun>>})
           /\ constraints = [equals |-> <<>>, notEquals |-> <<<<0, 0, 0, 1>>>>])
            => validation = [isValid |-> FALSE,
                             errors |-> <<<<"must be different", 1, 1, 1, 2>>>>]

\* A start position with a count error, two windows of three and a broken
\* constraint has been validated.
SeveralViolationsReported ==
  /\ pc = "validated"
  /\ Len(validation.errors) >= 4
  /\ \E i, j, k \in 1..Len(validation.errors) :
       /\ validation.errors[i][1] \in {"row suns", "row moons", "column suns", "column moons"}
       /\ validation.errors[j][1] \in {"row run", "column run"}
       /\ validation.errors[k][1] \in {"must be equal", "must be different"}

\* Row 0 of scenario A and the two grids one fill away from it.
ScenarioAGrids ==
  LET start == GridOf({<<0, 0, Sun>>, <<0, 1, Sun>>, <<0, 2, Sun>>, <<0, 3, Moon>>})
  IN {start, SetCell(start, 0, 4, Moon), SetCell(start, 0, 5, Moon)}

\* C15 (scenario A) as stated: with row 0 = sun sun sun moon - -, the rest
\* empty and no constraints, getNextStep answers with the Parity Rule filling
\* an empty cell of row 0 with a moon, and does so again once that step is
\* applied.
ParityFillsScenarioA ==
  (/\ grid \in ScenarioAGrids
   /\ constraints = [equals |-> <<>>, notEquals |-> <<>>]
   /\ pc \in {"asked", "stuck"})
    => /\ pc = "asked"
       /\ nextStep.ruleName = "Parity Rule"
       /\ nextStep.resultValue = Moon
       /\ nextStep.resultCell \in {<<0, 4>>, <<0, 5>>}
       /\ grid[nextStep.resultCell[1]][nextStep.resultCell[2]] = Null

\* C15 (scenario A) as the code behaves: the first getNextStep call fires the
\* Parity Rule and fills (0,4) with a moon; once that step is applied the
\* moons at (0,3) and (0,4) are a No-Three pattern, so the second call fires
\* the No-Three Rule, which comes first in the order, and fills (0,5) with a
\* sun.
ScenarioAParityThenNoThree ==
  LET start == GridOf({<<0, 0, Sun>>, <<0, 1, Sun>>, <<0, 2, Sun>>, <<0, 3, Moon>>})
  IN (constraints = [equals |-> <<>>, notEquals |-> <<>>] /\ pc \in {"asked", "stuck"})
       => /\ grid = start
               => /\ pc = "asked"
                  /\ nextStep.ruleName = "Parity Rule"
                  /\ nextStep.resultCell = <<0, 4>>
                  /\ nextStep.resultValue = Moon
          /\ grid = SetCell(start, 0, 4, Moon)
               => /\ pc = "asked"
                  /\ nextStep.ruleName = "No-Three Rule"
                  /\ nextStep.resultCell = <<0, 5>>
                  /\ nextStep.resultValue = Sun

\* Two getNextStep calls, each applied, have filled row 0 of scenario A: the
\* last cell holds the sun of the No-Three Rule.
ScenarioARowFilled ==
  /\ pc = "stepping"
  /\ constraints = [equals |-> <<>>, notEquals |-> <<>>]
  /\ grid = GridOf({<<0, 0, Sun>>, <<0, 1, Sun>>, <<0, 2, Sun>>, <<0, 3, Moon>>,
                    <<0, 4, Moon>>, <<0, 5, Sun>>})
  /\ nextStep.ruleName = "No-Three Rule"
  /\ nextStep.gridStateBefore[0][4] = Moon

\* The fills the No-Three pattern asks for in g: an empty cell next in line to
\* two adjacent equal filled cells, with the opposite of their symbol.
NoThreeTargets(g) ==
  LET n == GRID_SIZE
      In(r, c) == r \in 0..(n - 1) /\ c \in 0..(n - 1)
      Pair(r1, c1, r2, c2) ==
        In(r1, c1) /\ In(r2, c2) /\ g[r1][c1] # Null /\ g[r1][c1] = g[r2][c2]
  IN {t \in (0..(n - 1)) \X (0..(n - 1)) \X {Sun, Moon} :
        /\ g[t[1]][t[2]] = Null
        /\ \E d \in {<<0, 1>>, <<0, -1>>, <<1, 0>>, <<-1, 0>>} :
             /\ Pair(t[1] + d[1], t[2] + d[2], t[1] + 2 * d[1], t[2] + 2 * d[2])
             /\ t[3] # g[t[1] + d[1]][t[2] + d[2]]}

\* C16: whenever a line of the grid holds two adjacent equal filled cells with
\* an empty cell next to them in that line, getNextStep returns a step named
\* No-Three Rule that fills such an empty cell with the opposite symbol, and
\* so does every step a run records on such a grid; sun sun in the first two
\* cells of row 0 gives (0,2) = moon.
NoThreeFiresOnItsPattern ==
  /\ (pc \in {"asked", "stuck"} /\ NoThreeTargets(grid) # {})
       => /\ pc = "asked"
          /\ nextStep.ruleName = "No-Three Rule"
          /\ <<nextStep.resultCell[1], nextStep.resultCell[2], nextStep.resultValue>>
               \in NoThreeTargets(grid)
  /\ \A i \in 1..Len(steps) :
       NoThreeTargets(steps[i].gridStateBefore) # {}
         => /\ steps[i].ruleName = "No-Three Rule"
            /\ <<steps[i].resultCell[1], steps[i].resultCell[2], steps[i].resultValue>>
                 \in NoThreeTargets(steps[i].gridStateBefore)
  /\ (pc = "returned" /\ exit = "stuck") => NoThreeTargets(gridCopy) = {}
  /\ (pc = "asked" /\ grid = GridOf({<<0, 0, Sun>>, <<0, 1, Sun>>}))
       => nextStep.resultCell = <<0, 2>> /\ nextStep.resultValue = Moon

\* getNextStep answered a pair in a column with the No-Three Rule.
NoThreeFiredInColumn ==
  /\ pc = "asked"
  /\ nextStep.ruleName = "No-Three Rule"
  /\ grid = GridOf({<<0, 0, Sun>>, <<1, 0, Sun>>})
  /\ nextStep.resultCell = <<2, 0>>
  /\ nextStep.resultValue = Moon

\* Some line of g holds half the size of one symbol and an empty cell.
ParityPattern(g) ==
  LET n == GRID_SIZE
      Cell(kind, idx, j) == IF kind = "row" THEN g[idx][j] ELSE g[j][idx]
  IN \E kind \in {"row", "column"}, idx \in 0..(n - 1) :
       /\ \E j \in 0..(n - 1) : Cell(kind, idx, j) = Null
       /\ \E sym \in {Sun, Moon} :
            Cardinality({j \in 0..(n - 1) : Cell(kind, idx, j) = sym}) = n \div 2

\* The fill the first constraint with exactly one filled endpoint asks for,
\* the equals list read before the notEquals list: <<row, col, value>>, or
\* <<>> when no constraint has exactly one filled endpoint.
FirstPropagation(g) ==
  LET all == constraints.equals \o constraints.notEquals
      OneFilled(k) == (g[k[1]][k[2]] = Null) # (g[k[3]][k[4]] = Null)
      hits == {i \in 1..Len(all) : OneFilled(all[i])}
  IN IF hits = {} THEN <<>>
     ELSE LET i == CHOOSE x \in hits : \A y \in hits : x <= y
              k == all[i]
              known == IF g[k[1]][k[2]] # Null THEN g[k[1]][k[2]] ELSE g[k[3]][k[4]]
              other == IF known = Sun THEN Moon ELSE Sun
          IN <<IF g[k[1]][k[2]] = Null THEN k[1] ELSE k[3],
               IF g[k[1]][k[2]] = Null THEN k[2] ELSE k[4],
               IF i <= Len(constraints.equals) THEN known ELSE other>>

\* C17: when neither the No-Three nor the Parity pattern is present and some
\* constraint has exactly one filled endpoint, getNextStep fills the empty
\* endpoint of the first such constraint (equals list before notEquals list,
\* each in list order) with the same value for Equals and the opposite for
\* NotEquals; (0,0) = sun with Equals (0,0)-(0,1) gives (0,1) = sun.
ConstraintPropagationFillsFirst ==
  /\ (/\ pc \in {"asked", "stuck"}
      /\ NoThreeTargets(grid) = {}
      /\ ~ParityPattern(grid)
      /\ FirstPropagation(grid) # <<>>)
       => /\ pc = "asked"
          /\ <<nextStep.resultCell[1], nextStep.resultCell[2], nextStep.resultValue>>
               = FirstPropagation(grid)
          /\ nextStep.ruleName \in {"Constraint Propagation (Equals)",
                                     "Constraint Propagation (Not Equals)"}
  /\ (/\ pc = "asked"
      /\ grid = GridOf({<<0, 0, Sun>>})
      /\ constraints = [equals |-> <<<<0, 0, 0, 1>>>>, notEquals |-> <<>>])
       => nextStep.resultCell = <<0, 1>> /\ nextStep.resultValue = Sun

\* getNextStep propagated the first listed of two half-filled equals
\* constraints, the one further down the board.
PropagatedFirstListed ==
  /\ pc = "asked"
  /\ constraints = [equals |-> <<<<2, 2, 2, 3>>, <<0, 0, 0, 1>>>>, notEquals |-> <<>>]
  /\ grid = GridOf({<<0, 0, Sun>>, <<2, 2, Moon>>})
  /\ nextStep.resultCell = <<2, 3>>
  /\ nextStep.resultValue = Moon

\* C18: being stuck is a normal outcome.  On the empty grid without
\* constraints getNextStep returns null and solvePuzzleStepByStep returns no
\* step after one dispatch; on any grid where no rule applies getNextStep
\* returns null and the run returns the steps found so far, its working copy
\* holding the input plus exactly those steps, no cell guessed.
StuckIsNormal ==
  /\ (/\ grid = EmptyGrid(GRID_SIZE)
      /\ constraints = [equals |-> <<>>, notEquals |-> <<>>])
       => /\ pc # "asked"
          /\ pc = "stuck" => nextStep = NotFound
          /\ pc = "returned" => steps = <<>> /\ exit = "stuck" /\ dispatches = 1
  /\ (pc \in {"asked", "stuck"} /\ Applicable(grid) = {})
       => pc = "stuck" /\ nextStep = NotFound
  /\ (pc = "returned" /\ Applicable(grid) = {} /\ ~isComplete(grid, GRID_SIZE))
       => steps = <<>> /\ exit = "stuck" /\ gridCopy = grid
  /\ (pc = "returned" /\ exit = "stuck")
       => /\ Applicable(gridCopy) = {}
          /\ gridCopy = ApplySteps(grid, steps)

\* getNextStep reported no forced move on the empty grid.
EmptyGridReportedStuck ==
  /\ pc = "stuck"
  /\ grid = EmptyGrid(GRID_SIZE)
  /\ constraints = [equals |-> <<>>, notEquals |-> <<>>]
  /\ nextStep = NotFound

\* The left-right mirror image of a grid: column c goes to n-1-c.
MirrorLeftRight(g) ==
  [r \in Idx(GRID_SIZE) |-> [c \in Idx(GRID_SIZE) |-> g[r][GRID_SIZE - 1 - c]]]

\* The top-bottom mirror image of a grid: row r goes to n-1-r.
MirrorTopBottom(g) ==
  [r \in Idx(GRID_SIZE) |-> [c \in Idx(GRID_SIZE) |-> g[GRID_SIZE - 1 - r][c]]]

\* A constraint set with every endpoint mirrored left-right.
MirrorLeftRightCons(cons) ==
  LET M(k) == <<k[1], GRID_SIZE - 1 - k[2], k[3], GRID_SIZE - 1 - k[4]>>
  IN [equals |-> [i \in 1..Len(cons.equals) |-> M(cons.equals[i])],
      notEquals |-> [i \in 1..Len(cons.notEquals) |-> M(cons.notEquals[i])]]

\* A constraint set with every endpoint mirrored top-bottom.
MirrorTopBottomCons(cons) ==
  LET M(k) == <<GRID_SIZE - 1 - k[1], k[2], GRID_SIZE - 1 - k[3], k[4]>>
  IN [equals |-> [i \in 1..Len(cons.equals) |-> M(cons.equals[i])],
      notEquals |-> [i \in 1..Len(cons.notEquals) |-> M(cons.notEquals[i])]]

\* C19: getNextStep finds a forced move on a grid and constraint set exactly
\* when it finds one on their left-right mirror image, and exactly when it
\* finds one on their top-bottom mirror image.
MirrorSymmetry ==
  pc \in {"asked", "stuck"}
    => /\ nextStep.found
            = getNextStep(MirrorLeftRight(grid), MirrorLeftRightCons(constraints),
                          GRID_SIZE).found
       /\ nextStep.found
            = getNextStep(MirrorTopBottom(grid), MirrorTopBottomCons(constraints),
                          GRID_SIZE).found

\* C20: getNextStep finds a forced move on a grid and constraint set exactly
\* when it finds one on the transposed grid with every constraint endpoint
\* transposed, and each of the ten rules fires on a grid exactly when it fires
\* on the transpose.
TransposeSymmetry ==
  pc \in {"asked", "stuck"}
    => /\ nextStep.found
            = getNextStep(Transpose(grid, GRID_SIZE), TransposeCons(constraints),
                          GRID_SIZE).found
       /\ \A j \in 1..10 :
            Rule(j, grid, constraints, GRID_SIZE).found
              = Rule(j, Transpose(grid, GRID_SIZE), TransposeCons(constraints),
                     GRID_SIZE).found

\* getNextStep answered a pattern lying in column 0 with a rule that reads a
\* constraint.
ColumnPatternAnswered ==
  /\ pc = "asked"
  /\ \A r \in Idx(GRID_SIZE), c \in Idx(GRID_SIZE) : grid[r][c] # Null => c = 0
  /\ nextStep.resultCell[2] = 0
  /\ nextStep.ruleName \notin {"No-Three Rule", "Parity Rule",
                                "Constraint Propagation (Equals)",
                                "Constraint Propagation (Not Equals)"}
  /\ Len(constraints.equals) + Len(constraints.notEquals) > 0
  /\ Applicable(grid) \cap {8, 9, 10} # {}

\* Some constraint joins a cell to itself or names a cell off the grid.
HasMalformedConstraint ==
  \E k \in {constraints.equals[i] : i \in 1..Len(constraints.equals)}
          \cup {constraints.notEquals[i] : i \in 1..Len(constraints.notEquals)} :
    \/ <<k[1], k[2]>> = <<k[3], k[4]>>
    \/ \E j \in 1..4 : k[j] < 0 \/ k[j] >= GRID_SIZE

\* What a call that failed fast on its precondition would hand back.
PreconditionError == [error |-> "precondition"]

\* C13: validateStartingPosition, getNextStep and solvePuzzleStepByStep called
\* with a constraint whose endpoints are the same cell fail fast with a
\* precondition error: none of them returns a normal result (a validation
\* record, a step, null, a step list) and the solver loop is never entered.
MalformedInputFailsFast ==
  HasMalformedConstraint
    => /\ pc = "validated" => validation = PreconditionError
       /\ pc \in {"asked", "stuck"} => nextStep = PreconditionError
       /\ pc \notin {"solving", "returned", "stepping"}

\* The board reports the puzzle as solved: the win message is shown when the
\* isComplete flag is set and no other message is.
ReportsSolved == boardComplete /\ validationError.kind = "none"

\* C14: whenever checkWin accepts the board's grid and the board reports the
\* puzzle as solved, the grid has no empty cell and no legality violation, the
\* Equals and NotEquals constraints included, after any run of cell clicks,
\* constraint edits and solver steps.
WinImpliesFullLegality ==
  (ReportsSolved /\ checkWin(grid, GRID_SIZE))
    => /\ isComplete(grid, GRID_SIZE)
       /\ validateStartingPosition(grid, constraints, GRID_SIZE).errors = <<>>

\* One of the two solve buttons is pressed.
SolvePressed == handleSolve \/ handleSolveStepByStep

\* C12: when Solve All or Solve Step-by-Step is pressed on a grid that
\* validateStartingPosition rejects, the solver is not called, no step is
\* recorded, the grid, the constraints and the locked cells stay as they were,
\* and the message is the list of violations.
IllegalStartGate ==
  [][(SolvePressed /\ ~validateStartingPosition(grid, constraints, GRID_SIZE).isValid)
       => /\ ~solverCalled'
          /\ allSteps' \in {allSteps, <<>>}
          /\ grid' = grid
          /\ constraints' = constraints
          /\ lockedCells' = lockedCells
          /\ validationError' =
               [kind |-> "errors",
                errors |-> validateStartingPosition(grid, constraints, GRID_SIZE).errors]]_vars

\* The same constraint set with the two endpoints of every tuple swapped.
SwapEndpoints(list) == [i \in 1..Len(list) |-> <<list[i][3], list[i][4], list[i][1], list[i][2]>>]

SwappedConstraints(cons) ==
  [equals |-> SwapEndpoints(cons.equals), notEquals |-> SwapEndpoints(cons.notEquals)]

\* C21: the outcome of getNextStep (whether a step exists, its resultCell and
\* its resultValue) is the same when the endpoints of the constraints are
\* stored the other way round.
EndpointOrderIrrelevant ==
  pc = "idle" =>
    \E a \in {getNextStep(grid, constraints, GRID_SIZE)} :
    \E b \in {getNextStep(grid, SwappedConstraints(constraints), GRID_SIZE)} :
      /\ a.found = b.found
      /\ a.found => a.resultCell = b.resultCell /\ a.resultValue = b.resultValue

\* The full lines that are legal on their own: size/2 of each symbol and no
\* three equal in a row.
LegalLines(n) ==
  {l \in [Idx(n) -> {Sun, Moon}] :
     /\ Cardinality({i \in Idx(n) : l[i] = Sun}) = n \div 2
     /\ \A i \in 0..(n - 3) : ~(l[i] = l[i + 1] /\ l[i + 1] = l[i + 2])}

\* The full line l extends the partly filled line: it keeps every filled cell.
Extends(l, line, n) == \A i \in Idx(n) : line[i] # Null => l[i] = line[i]

\* The step s is a same-line Modifier Balance step of the rule engine: the
\* rule is Modifier Balance and the cell filled is not an endpoint of the
\* constraint the step names (the last two affectedCells).
SameLineModifierStep(s) ==
  /\ s.found
  /\ s.ruleName = "Modifier Balance Rule"
  /\ Len(s.affectedCells) >= 2
  /\ s.resultCell # s.affectedCells[Len(s.affectedCells)]
  /\ s.resultCell # s.affectedCells[Len(s.affectedCells) - 1]

\* C22: whenever the same-line case of Modifier Balance fills an empty cell x
\* of a line with the opposite of S, no legal full line that extends the line
\* and satisfies the in-line NotEquals constraint has S at x.
ModifierSameLineForced ==
  (pc = "asked" /\ SameLineModifierStep(nextStep)
     /\ isValidPartialSolution(nextStep.gridStateBefore, constraints, GRID_SIZE))
    => LET ac == nextStep.affectedCells
           e1 == ac[Len(ac) - 1]
           e2 == ac[Len(ac)]
           x == nextStep.resultCell
           g == nextStep.gridStateBefore
           vertical == e1[2] = e2[2]
           line == IF vertical THEN [i \in Idx(GRID_SIZE) |-> g[i][x[2]]] ELSE g[x[1]]
           at(cell) == IF vertical THEN cell[1] ELSE cell[2]
       IN ~\E l \in LegalLines(GRID_SIZE) :
             /\ Extends(l, line, GRID_SIZE)
             /\ l[at(e1)] # l[at(e2)]
             /\ l[at(x)] = Opposite(nextStep.resultValue)

\* The names of rules 9 and 10, which fill the first endpoint of an equals pair.
EqualsPairRules == {"End with Equals Constraint Rule", "Adjacent Equals Constraint Rule"}

\* The equals pairs step s may have filled the first endpoint of: resultCell is
\* the first endpoint and the second was empty before the step.
PairsFilledBy(s) ==
  {constraints.equals[i] : i \in 1..Len(constraints.equals)}
    \cap {k \in Idx(GRID_SIZE) \X Idx(GRID_SIZE) \X Idx(GRID_SIZE) \X Idx(GRID_SIZE) :
            /\ <<k[1], k[2]>> = s.resultCell
            /\ s.gridStateBefore[k[3]][k[4]] = Null}

\* C23: in a run of solvePuzzleStepByStep from a legal starting grid, whenever
\* rule 9 or rule 10 fills one endpoint of an equals pair with a value, a later
\* step of the same run fills the other endpoint with the same value.  Stated
\* here for the puzzles that have a known solution.
EqualsPartnerFollows ==
  (/\ pc = "returned"
   /\ isValidPartialSolution(grid, constraints, GRID_SIZE)
   /\ HasKnownSolution)
    => \A i \in 1..Len(steps) :
         steps[i].ruleName \in EqualsPairRules
           => \E k \in PairsFilledBy(steps[i]) : \E j \in (i + 1)..Len(steps) :
                /\ steps[j].resultCell = <<k[3], k[4]>>
                /\ steps[j].resultValue = steps[i].resultValue

\* The names of rules 4, 6 and 7.
LineEndRules == {"Edge Case Rule", "Two Equals at End Rule", "Second-to-Last Equals First Rule"}

\* The step s filled a cell whose value every legal full line agrees on: no
\* legal full line of the grid's size extends the line of s (the row or column
\* its two justifying cells lie in) with the other symbol in the filled cell.
LineFillForced(s) ==
  LET n == SizeOf(s.gridStateBefore)
      x == s.resultCell
      g == s.gridStateBefore
      vertical == s.affectedCells[1][2] = s.affectedCells[2][2]
      line == IF vertical THEN [i \in Idx(n) |-> g[i][x[2]]] ELSE g[x[1]]
      at == IF vertical THEN x[1] ELSE x[2]
  IN ~\E l \in LegalLines(n) : Extends(l, line, n) /\ l[at] = Opposite(s.resultValue)

\* C24: for the sizes 4, 6 and 8, whenever rule 4, 6 or 7 fills a cell of a
\* line, no legal full line extending that line holds the other symbol in
\* that cell.
LineEndRulesForced ==
  (nextStep.found /\ nextStep.ruleName \in LineEndRules) => LineFillForced(nextStep)

RECURSIVE StepByStepList(_, _, _, _)
\* The caller's loop once getNextStep has answered with `step`.
StepByStepFrom(g, cons, n, collected, step) ==
  IF step.found
  THEN StepByStepList(ApplyStep(g, step), cons, n, Append(collected, step))
  ELSE collected

\* The steps a caller collects by asking getNextStep for a step on its current
\* grid and applying it, until there is no step or no empty cell.
StepByStepList(g, cons, n, collected) ==
  IF isComplete(g, n) THEN collected
  ELSE StepByStepFrom(g, cons, n, collected, getNextStep(g, cons, n))

\* C25: the step list solvePuzzleStepByStep returns equals, step by step and
\* field by field (rule name, result cell and value, both snapshots), the list
\* collected by calling getNextStep on the current grid and applying its step
\* until it returns none or the grid is full.
DriverModesAgree ==
  pc = "returned" => steps = StepByStepList(grid, constraints, GRID_SIZE, <<>>)

\* A run has returned several steps and filled the grid.
RunReturnedSeveralSteps == pc = "returned" /\ exit = "complete" /\ Len(steps) >= 3

\* The recorded steps form a chain from the caller's grid: the first step
\* starts at the input grid and every later step starts where the step before
\* it ended.
ChainOfSnapshots ==
  (pc \in {"solving", "returned"} /\ Len(steps) > 0)
    => /\ steps[1].gridStateBefore = grid
       /\ \A i \in 1..(Len(steps) - 1) :
            steps[i + 1].gridStateBefore = steps[i].gridStateAfter

\* A pass of the loop leaves every step recorded before it as it was.
EarlierStepsKept ==
  pc = "solving" => \A i \in 1..Len(steps) : Len(steps') >= i /\ steps'[i] = steps[i]

\* C26: the steps of one solvePuzzleStepByStep run form a chain (the first
\* gridStateBefore is the input grid, each later gridStateBefore is the
\* gridStateAfter of the step before), and a later step never changes the
\* snapshots stored in an earlier step.
StepsFormChain == []ChainOfSnapshots /\ [][EarlierStepsKept]_vars

\* A run has recorded a third step after two others.
ThreeStepsChained ==
  /\ pc \in {"solving", "returned"}
  /\ Len(steps) >= 3
  /\ steps[3].gridStateBefore # steps[1].gridStateBefore

\* C27: for every step getNextStep returns, every coordinate in affectedCells
\* is a filled cell of gridStateBefore, so affectedCells holds neither
\* resultCell nor any other empty cell.
AffectedCellsAreKnown ==
  nextStep.found
    => \A i \in 1..Len(nextStep.affectedCells) :
         nextStep.gridStateBefore[nextStep.affectedCells[i][1]][nextStep.affectedCells[i][2]] # Null

\* The names of the steps of rules 1, 2 and 3.
FirstThreeRules ==
  {"No-Three Rule", "Parity Rule", "Constraint Propagation (Equals)",
   "Constraint Propagation (Not Equals)"}

\* A notEquals constraint has one filled and one empty endpoint in g.
HasHalfFilledNotEquals(g) ==
  \E i \in 1..Len(constraints.notEquals) : HalfFilled(g, constraints.notEquals[i])

\* C28: the cross-line case of Modifier Balance never produces the step
\* getNextStep returns.  Whenever its pattern is present, or any notEquals
\* constraint has one filled and one empty endpoint, the step returned comes
\* from rule 1, 2 or 3; every returned Modifier Balance step is the same-line
\* step and fills a cell that is not an endpoint of the constraint it names.
CrossLineNeverReturned ==
  pc = "asked" =>
    /\ (\/ ModifierCrossLine(nextStep.gridStateBefore, constraints, GRID_SIZE).found
        \/ HasHalfFilledNotEquals(nextStep.gridStateBefore))
         => nextStep.ruleName \in FirstThreeRules
    /\ nextStep.ruleName = "Modifier Balance Rule"
         => \E same \in {ModifierSameLine(nextStep.gridStateBefore, constraints, GRID_SIZE)} :
              /\ same.found
              /\ nextStep.resultCell = same.resultCell
              /\ nextStep.resultValue = same.resultValue
              /\ nextStep.affectedCells = same.affectedCells
              /\ SameLineModifierStep(nextStep)

\* The cross-line pattern was present and an earlier rule answered.
CrossLinePatternShadowed ==
  /\ pc = "asked"
  /\ ModifierCrossLine(nextStep.gridStateBefore, constraints, GRID_SIZE).found
  /\ nextStep.ruleName \in FirstThreeRules

\* Every constraint the board stores, from both lists.
StoredConstraints ==
  {<<"equals", i>> : i \in 1..Len(constraints.equals)}
    \cup {<<"notEquals", i>> : i \in 1..Len(constraints.notEquals)}

\* The tuple a stored constraint names.
StoredTuple(x) == IF x[1] = "equals" THEN constraints.equals[x[2]] ELSE constraints.notEquals[x[2]]

\* k joins two cells of the grid that are next to each other, the left or
\* upper one first.
CanonicalEdge(k) ==
  /\ \A i \in 1..4 : k[i] \in Idx(GRID_SIZE)
  /\ \/ k[1] = k[3] /\ k[4] = k[2] + 1
     \/ k[2] = k[4] /\ k[3] = k[1] + 1

\* C29: after any run of edge drops and constraint removals, every stored
\* constraint joins two adjacent cells with the first endpoint before the
\* second, and no pair of cells carries more than one constraint over the
\* equals and notEquals lists together.
ConstraintsCanonical ==
  /\ \A x \in StoredConstraints : CanonicalEdge(StoredTuple(x))
  /\ \A x, y \in StoredConstraints :
       x # y => ~OnEdge(StoredTuple(x), StoredTuple(y)[1], StoredTuple(y)[2],
                        StoredTuple(y)[3], StoredTuple(y)[4])

\* Two constraints are stored after at least three board events, so an edge
\* was dropped on again or a constraint was removed.
TwoConstraintsAfterEdits ==
  /\ Len(constraints.equals) = 1
  /\ Len(constraints.notEquals) = 1
  /\ boardEvents >= 3
  /\ grid \in BoardGrids

\* C30: whenever Solve All passes validation and the solver's run leaves at
\* least one empty cell, whether it found no step or some, the board shows the
\* 'could not be solved' message (which is not the list of violations).
StuckIsReported ==
  [][(handleSolve /\ solverCalled' /\ ~isComplete(grid', GRID_SIZE))
       => validationError' = [kind |-> "Puzzle could not be solved."]]_vars

====
